---- MODULE Spec2Model ----
(***************************************************************************)
(* Verification model of the seed explorer's world generation core:        *)
(* JavaRandom (48-bit LCG), PerlinNoise / OctaveNoise, MinecraftWorldgen   *)
(* (biome queries with the per-seed noise cache, the three biome           *)
(* classifiers, the structure placement scan) and isJavaSlimeChunk.        *)
(*                                                                         *)
(* Number representation.  TLC integers are 32 bits wide, so               *)
(*  - a BigInt is carried modulo 2^48 as four 12-bit limbs, least          *)
(*    significant first: every BigInt of the program ends in               *)
(*    "& ((1n << 48n) - 1n)", which reads nothing above bit 47;            *)
(*  - a double that holds a noise coordinate or a noise value is carried   *)
(*    in fixed point, One standing for 1.0 (products are floored            *)
(*    to that grid); on the block lattices used by the biome queries the   *)
(*    values needed are on the grid or are compared far from a threshold;  *)
(*  - a double that is compared with a decimal literal is a rational       *)
(*    <<numerator, denominator>> with a positive denominator.              *)
(***************************************************************************)
EXTENDS Integers, Sequences, FiniteSets, TLC

VARIABLES
    noiseGenerators,  \* MinecraftWorldgen.noiseGenerators (Null before the first query)
    currentSeed,      \* MinecraftWorldgen.currentSeed (Undefined before the first query)
    call,             \* the operation invoked last, with its arguments
    result,           \* what that operation returned
    pinned,           \* a call and its result, kept once made (Null before)
    javaRandom,       \* a JavaRandom instance that is drawn from call after call
    cubiomes,         \* the CubiomesWorldgen instance
    heap,             \* the pointers malloc returned that were not freed since
    app               \* the MinecraftMapApp instance

vars == <<noiseGenerators, currentSeed, call, result, pinned, javaRandom, cubiomes,
         heap, app>>

Null == [null |-> TRUE]
\* undefined: a value that equals no string (no character code is negative)
Undefined == <<-1>>

(***************************************************************************)
(* Integer helpers                                                         *)
(***************************************************************************)
Abs(n) == IF n < 0 THEN -n ELSE n

\* floor division and the matching non-negative remainder, for a positive d
FloorDiv(n, d) == IF n >= 0 THEN n \div d ELSE -((-n + d - 1) \div d)

Mod(n, d) == n - d * FloorDiv(n, d)

\* TRUE, once v has been computed: the model checker computes a value when it
\* is first needed, and a loop that threads a value through its passes uses
\* this to compute each pass before it starts the next
Evaluated(v) == v = v

\* e, computed after v: JavaScript computes the operands of a call before the call
After(v, e) == IF Evaluated(v) THEN e ELSE e

RECURSIVE Gcd(_, _)
Gcd(a, b) == IF b = 0 THEN a ELSE Gcd(b, a % b)

\* bitwise operations on naturals below 2^k, bit by bit: the low k \div 2
\* bits and the bits above them
RECURSIVE BitXor(_, _, _)
BitXor(a, b, k) ==
    IF k = 0 THEN 0
    ELSE IF k = 1 THEN ((a % 2) + (b % 2)) % 2
    ELSE BitXor(a % (2 ^ (k \div 2)), b % (2 ^ (k \div 2)), k \div 2)
            + (2 ^ (k \div 2))
                * BitXor(a \div (2 ^ (k \div 2)), b \div (2 ^ (k \div 2)), k - k \div 2)

RECURSIVE BitAnd(_, _, _)
BitAnd(a, b, k) ==
    IF k = 0 THEN 0
    ELSE IF k = 1 THEN (a % 2) * (b % 2)
    ELSE BitAnd(a % (2 ^ (k \div 2)), b % (2 ^ (k \div 2)), k \div 2)
            + (2 ^ (k \div 2))
                * BitAnd(a \div (2 ^ (k \div 2)), b \div (2 ^ (k \div 2)), k - k \div 2)

(***************************************************************************)
(* BigInt modulo 2^48: four limbs of 12 bits                               *)
(***************************************************************************)
Base == 2 ^ 12

\* a machine integer as a BigInt (two's complement for negatives)
U48FromInt(n) ==
    LET l0 == Mod(n, Base)
        q0 == FloorDiv(n, Base)
        l1 == Mod(q0, Base)
        q1 == FloorDiv(q0, Base)
        l2 == Mod(q1, Base)
        q2 == FloorDiv(q1, Base)
    IN  <<l0, l1, l2, Mod(q2, Base)>>

U48Add(a, b) ==
    LET c0 == a[1] + b[1]
        c1 == a[2] + b[2] + c0 \div Base
        c2 == a[3] + b[3] + c1 \div Base
        c3 == a[4] + b[4] + c2 \div Base
    IN  <<c0 % Base, c1 % Base, c2 % Base, c3 % Base>>

U48Mul(a, b) ==
    LET c0 == a[1] * b[1]
        c1 == a[1] * b[2] + a[2] * b[1] + c0 \div Base
        c2 == a[1] * b[3] + a[2] * b[2] + a[3] * b[1] + c1 \div Base
        c3 == a[1] * b[4] + a[2] * b[3] + a[3] * b[2] + a[4] * b[1] + c2 \div Base
    IN  <<c0 % Base, c1 % Base, c2 % Base, c3 % Base>>

U48Xor(a, b) ==
    <<BitXor(a[1], b[1], 12), BitXor(a[2], b[2], 12),
      BitXor(a[3], b[3], 12), BitXor(a[4], b[4], 12)>>

\* limb i (from 1) of a, zero beyond the fourth
Limb(a, i) == IF i >= 1 /\ i <= 4 THEN a[i] ELSE 0

\* a >> k for 0 <= k <= 47
U48Shr(a, k) ==
    LET q == k \div 12
        r == k % 12
        L(i) == (Limb(a, i + q) \div (2 ^ r)) + (Limb(a, i + q + 1) % (2 ^ r)) * (2 ^ (12 - r))
    IN  <<L(1), L(2), L(3), L(4)>>

\* (a << k) modulo 2^48 for 0 <= k <= 47
U48Shl(a, k) ==
    LET q == k \div 12
        r == k % 12
        L(i) == (Limb(a, i - q) % (2 ^ (12 - r))) * (2 ^ r)
                    + (Limb(a, i - q - 1) \div (2 ^ (12 - r)))
    IN  <<L(1), L(2), L(3), L(4)>>

\* Number(a) for a BigInt below 2^31
U48ToNumber(a) == a[1] + Base * (a[2] + Base * (a[3] + Base * a[4]))

\* a mod m for a small positive m (m * Base within the machine range)
U48ModSmall(a, m) ==
    ((((((a[4] % m) * Base + a[3]) % m) * Base + a[2]) % m) * Base + a[1]) % m

(***************************************************************************)
(* JavaRandom (src/unnamed/part_000).  A generator is the record           *)
(* [seed |-> BigInt]; an operation that draws returns [val, rnd]: the      *)
(* value returned and the generator after the call.                        *)
(***************************************************************************)
MULTIPLIER == <<1645, 3790, 1502, 0>>   \* 0x5DEECE66Dn = 0x5DE * 2^24 + 0xECE * 2^12 + 0x66D
ADDEND == <<11, 0, 0, 0>>               \* 0xBn

\* the seed stored as it is, without the exclusive or
setSeedPlain(seed) == [seed |-> seed]

\* setSeed(seed); seed is the BigInt(seed) of the source
setSeed(seed) == [seed |-> U48Xor(seed, MULTIPLIER)]

\* new JavaRandom(seed)
JavaRandom(seed) == setSeed(seed)

\* the low bits of s returned, not the top ones
drawnLow(s, bits) == [val |-> U48Shr(U48Shl(s, 48 - bits), 48 - bits), rnd |-> [seed |-> s]]

\* the value of next(bits) and the generator, once this.seed has become s
drawn(s, bits) == [val |-> U48Shr(s, 48 - bits), rnd |-> [seed |-> s]]

\* next(bits): the value is BigInt-wide (next(32) does not fit a machine integer)
next(rnd, bits) == drawn(U48Add(U48Mul(rnd.seed, MULTIPLIER), ADDEND), bits)

\* Number((BigInt(bound) * BigInt(v)) >> 31n) for bound, v below 2^31
MulShr31(bound, v) ==
    LET a0 == bound % Base
        a1 == (bound \div Base) % Base
        a2 == bound \div (Base * Base)
        b0 == v % Base
        b1 == (v \div Base) % Base
        b2 == v \div (Base * Base)
        c0 == a0 * b0
        c1 == a0 * b1 + a1 * b0 + c0 \div Base
        c2 == a0 * b2 + a1 * b1 + a2 * b0 + c1 \div Base
        c3 == a1 * b2 + a2 * b1 + c2 \div Base
        c4 == a2 * b2 + c3 \div Base
        c5 == c4 \div Base
    IN  ((c2 % Base) \div (2 ^ 7)) + (c3 % Base) * (2 ^ 5)
            + (c4 % Base) * (2 ^ 17) + c5 * (2 ^ 29)

\* the do ... while loop of nextInt for a bound that is no power of two
RECURSIVE nextIntLoop(_, _)
RECURSIVE nextIntTest(_, _, _)
\* the loop test on bits = this.next(31), drawn from the generator that is now rnd
nextIntTest(bits, rnd, bound) ==
    IF (bits - (bits % bound)) < -(bound - 1)
    THEN nextIntLoop(rnd, bound)
    ELSE [val |-> bits % bound, rnd |-> rnd]

\* bits = this.next(31), then the test
nextIntLoop(rnd, bound) ==
    LET d == next(rnd, 31)
    IN  nextIntTest(U48ToNumber(d.val), d.rnd, bound)

\* the scaled value rounded to the nearest integer, not down: bit 30 of
\* bound * bits is added
nextIntRounded(d, bound) ==
    [val |-> MulShr31(bound, U48ToNumber(d.val))
                + ((U48Mul(U48FromInt(bound), d.val)[3] \div 64) % 2),
     rnd |-> d.rnd]

\* the power-of-two branch of nextInt; d is what this.next(31) returned
nextIntScaled(d, bound) == [val |-> MulShr31(bound, U48ToNumber(d.val)), rnd |-> d.rnd]

\* nextInt(bound) for bound >= 0 (0 stands for a missing bound); the second
\* test is (bound & -bound) === bound on a positive 32-bit bound
nextInt(rnd, bound) ==
    After(rnd, IF bound = 0
               THEN next(rnd, 32)
               ELSE IF BitAnd(bound, (2147483647 - bound) + 1, 31) = bound
               THEN nextIntScaled(next(rnd, 31), bound)
               ELSE nextIntLoop(rnd, bound))

\* nextLong(): (BigInt(next(32)) << 32n) + BigInt(next(32))
nextLong(rnd) ==
    LET a == next(rnd, 32)
        lo == next(a.rnd, 32)
    IN  [val |-> U48Add(U48Shl(a.val, 32), lo.val), rnd |-> lo.rnd]

\* nextDouble(): ((next(26) << 27) + next(27)) / (1 << 53), a rational.  The
\* operator << works on 32-bit integers and takes its count modulo 32:
\* a << 27 keeps the low five bits of a and is signed, 1 << 53 is 2^21.
nextDouble(rnd) ==
    LET a == next(rnd, 26)
        b == next(a.rnd, 27)
        low == U48ToNumber(a.val) % 32
    IN  [val |-> <<(IF low >= 16 THEN low - 32 ELSE low) * 2 ^ 27 + U48ToNumber(b.val),
                   2 ^ (53 % 32)>>,
         rnd |-> b.rnd]

\* the loop test of nextGaussian on the two values nextDouble() returned,
\* d1 and then d2: v1 = 2 * d1 - 1, v2 = 2 * d2 - 1, s = v1 * v1 + v2 * v2 and
\* again, s >= 1 || s === 0.  A nextDouble() outside (0, 1) gives a v of
\* magnitude 1 at least, so s >= 1; inside, v1 and v2 are whole multiples of
\* 2^-20 and s, a multiple of 2^-40, is exact in a double: v1 and v2 are
\* rationals and s is the numerator of s over half * half.
gaussianTest(d1, d2) ==
    LET half == d1.val[2] \div 2
        v1 == d1.val[1] - half
        v2 == d2.val[1] - half
        s == U48Add(U48Mul(U48FromInt(Abs(v1)), U48FromInt(Abs(v1))),
                    U48Mul(U48FromInt(Abs(v2)), U48FromInt(Abs(v2))))
        one == U48Mul(U48FromInt(half), U48FromInt(half))
    IN  IF d1.val[1] > 0 /\ d1.val[1] < 2 * half /\ d2.val[1] > 0 /\ d2.val[1] < 2 * half
        THEN [again |-> \/ ~\E i \in 1..4 : s[i] < one[i] /\ \A j \in (i + 1)..4 : s[j] = one[j]
                        \/ s = U48FromInt(0),
              v1 |-> <<v1, half>>, v2 |-> <<v2, half>>, s |-> s, rnd |-> d2.rnd]
        ELSE [again |-> TRUE, rnd |-> d2.rnd]

\* one pass of the do ... while body of nextGaussian from the register of rnd
gaussianPass(rnd) ==
    LET d1 == nextDouble(rnd)
    IN  gaussianTest(d1, nextDouble(d1.rnd))

\* the do ... while loop of nextGaussian: the pass that ends it
RECURSIVE gaussianLoop(_)
gaussianLoop(rnd) ==
    LET pass == gaussianPass(rnd)
    IN  IF pass.again THEN gaussianLoop(pass.rnd) ELSE pass

\* the spare is returned and kept: hasNextGaussian stays set
nextGaussianKept(rnd) ==
    IF "hasNextGaussian" \in DOMAIN rnd /\ rnd.hasNextGaussian
    THEN [val |-> rnd.nextGaussianValue, rnd |-> rnd]
    ELSE LET pass == gaussianLoop(rnd)
         IN  [val |-> [v |-> pass.v1, s |-> pass.s],
              rnd |-> [seed |-> pass.rnd.seed, hasNextGaussian |-> TRUE,
                       nextGaussianValue |-> [v |-> pass.v2, s |-> pass.s]]]

\* nextGaussian() on the instance rnd, which has the fields hasNextGaussian
\* and nextGaussianValue once a nextGaussian() has drawn: the constructor
\* sets neither, and a missing hasNextGaussian is undefined, which the test
\* takes as false.  The value v * Math.sqrt(-2 * Math.log(s) / s) is [v, s].
nextGaussian(rnd) ==
    IF "hasNextGaussian" \in DOMAIN rnd /\ rnd.hasNextGaussian
    THEN [val |-> rnd.nextGaussianValue, rnd |-> [rnd EXCEPT !.hasNextGaussian = FALSE]]
    ELSE LET pass == gaussianLoop(rnd)
         IN  [val |-> [v |-> pass.v1, s |-> pass.s],
              rnd |-> [seed |-> pass.rnd.seed, hasNextGaussian |-> TRUE,
                       nextGaussianValue |-> [v |-> pass.v2, s |-> pass.s]]]

(***************************************************************************)
(* PerlinNoise and OctaveNoise (src/perlin-noise.js)                       *)
(***************************************************************************)
\* A JavaScript array is a tuple: element i of the array is At(array, i).
At(array, i) == array[i + 1]

\* the array [lo, lo + 1, ..., hi]
RECURSIVE Iota(_, _)
Iota(lo, hi) ==
    IF lo = hi THEN <<lo>>
    ELSE LET mid == (lo + hi) \div 2
         IN  Iota(lo, mid) \o Iota(mid + 1, hi)

\* perm[i] = perm[j] alone: perm[j] keeps its value
swapOverwrite(perm, d, i) ==
    [perm |-> [perm EXCEPT ![i + 1] = At(perm, d.val)], rnd |-> d.rnd]

\* the swap, after which the generator is drawn from once more
swapRedrawn(perm, d, i) ==
    [perm |-> [perm EXCEPT ![i + 1] = At(perm, d.val), ![d.val + 1] = At(perm, i)],
     rnd |-> next(d.rnd, 31).rnd]

\* the swap [perm[i], perm[j]] = [perm[j], perm[i]] with j = d.val
swap(perm, d, i) ==
    [perm |-> [perm EXCEPT ![i + 1] = At(perm, d.val), ![d.val + 1] = At(perm, i)],
     rnd |-> d.rnd]

\* the Fisher-Yates loop "for (i = hi; i >= lo; i--)" with the body
\* j = random.nextInt(i + 1); [perm[i], perm[j]] = [perm[j], perm[i]]; the range is halved
\* so that the evaluation depth stays logarithmic in its length
RECURSIVE Shuffle(_, _, _)
RECURSIVE ShuffleLower(_, _, _)
\* the passes from mid down to lo, after the passes above mid have produced upper
ShuffleLower(upper, mid, lo) == IF Evaluated(upper) THEN Shuffle(upper, mid, lo) ELSE upper

Shuffle(st, hi, lo) ==
    IF hi < lo THEN st
    ELSE IF hi = lo THEN swap(st.perm, nextInt(st.rnd, hi + 1), hi)
    ELSE ShuffleLower(Shuffle(st, hi, (hi + lo) \div 2 + 1), (hi + lo) \div 2, lo)

\* the table is the 256 entries of perm
doubledOnce(sh) == [p |-> sh.perm, rnd |-> sh.rnd]

\* the loop "for (i = 0; i < 512; i++) this.p[i] = perm[i & 255]"
doubled(sh) == [p |-> sh.perm \o sh.perm, rnd |-> sh.rnd]

\* new PerlinNoise(random): the table p (p[i] = perm[i & 255] for i < 512),
\* and the generator random after the call
PerlinNoise(random) ==
    After(random, doubled(Shuffle([perm |-> Iota(0, 255), rnd |-> random], 255, 1)))

\* the loop of the OctaveNoise constructor: this.octaves.push(new PerlinNoise(random))
RECURSIVE OctaveList(_, _)
RECURSIVE OctavePush(_, _)
OctavePush(pn, octaves) == After(pn, <<pn.p>> \o OctaveList(pn.rnd, octaves - 1))

OctaveList(random, octaves) ==
    IF octaves = 0
    THEN <<>>
    ELSE OctavePush(PerlinNoise(random), octaves)

\* new OctaveNoise(random, octaves, amplitudes); amplitudes are fixed-point values
OctaveNoise(random, octaves, amplitudes) ==
    [octaves |-> OctaveList(random, octaves), amplitudes |-> amplitudes]

(***************************************************************************)
(* Doubles.  Fx: fixed point, the integer n stands for n / One.            *)
(* Rational: <<n, d>> with d > 0 stands for n / d.                         *)
(***************************************************************************)
One == 2 ^ 13

FxMul(a, b) == FloorDiv(a * b, One)

\* Math.floor of a fixed-point value, as an integer
FxFloor(x) == FloorDiv(x, One)

Dec(hundredths) == <<hundredths, 100>>

Lt(a, b) == a[1] * b[2] < b[1] * a[2]

Gt(a, b) == Lt(b, a)

\* Math.abs left out: the value itself
RatAbsSkipped(a) == a

RatAbs(a) == <<Abs(a[1]), a[2]>>

\* fade(t) = t * t * t * (t * (t * 6 - 15) + 10)
fade(t) == FxMul(FxMul(FxMul(t, t), t), FxMul(t, t * 6 - 15 * One) + 10 * One)

\* the interpolation started from b: b + t * (a - b)
lerpFromEnd(t, a, b) == b + FxMul(t, a - b)

\* lerp(t, a, b) = a + t * (b - a)
lerp(t, a, b) == a + FxMul(t, b - a)

\* grad(hash, x, y, z)
grad(hash, x, y, z) ==
    LET h == hash % 16
        u == IF h < 8 THEN x ELSE y
        v == IF h < 4 THEN y ELSE IF h = 12 \/ h = 14 THEN x ELSE z
    IN  (IF h % 2 = 0 THEN u ELSE -u) + (IF (h \div 2) % 2 = 0 THEN v ELSE -v)

\* the interpolation of noise(x, y, z): the eight gradients at the table
\* entries AA, BA, AB, BB and their successors, blended by u, v, w
noiseBlend(p, AA, AB, BA, BB, x, y, z, u, v, w) ==
    lerp(w,
        lerp(v,
            lerp(u, grad(At(p, AA), x, y, z),
                    grad(At(p, BA), x - One, y, z)),
            lerp(u, grad(At(p, AB), x, y - One, z),
                    grad(At(p, BB), x - One, y - One, z))),
        lerp(v,
            lerp(u, grad(At(p, AA + 1), x, y, z - One),
                    grad(At(p, BA + 1), x - One, y, z - One)),
            lerp(u, grad(At(p, AB + 1), x, y - One, z - One),
                    grad(At(p, BB + 1), x - One, y - One, z - One))))

\* A = p[X] + Y and B = p[X + 1] + Y are known: AA, AB, BA, BB and u, v, w
noiseCorners(p, A, B, Z, x, y, z) ==
    noiseBlend(p, At(p, A) + Z, At(p, A + 1) + Z, At(p, B) + Z, At(p, B + 1) + Z,
               x, y, z, fade(x), fade(y), fade(z))

\* the unit cube X, Y, Z and the position x, y, z in it are known
noiseCell(p, X, Y, Z, x, y, z) == noiseCorners(p, At(p, X) + Y, At(p, X + 1) + Y, Z, x, y, z)

\* PerlinNoise.noise(x, y, z) on the table p
noise(p, x0, y0, z0) ==
    noiseCell(p, Mod(FxFloor(x0), 256), Mod(FxFloor(y0), 256), Mod(FxFloor(z0), 256),
              x0 - FxFloor(x0) * One, y0 - FxFloor(y0) * One, z0 - FxFloor(z0) * One)

\* the indices at which noise(x0, y0, z0) reads the table p, in the order
\* X, X + 1, A, A + 1, B, B + 1, AA, AA + 1, AB, AB + 1, BA, BA + 1, BB, BB + 1
noiseIndices(p, x0, y0, z0) ==
    LET X == Mod(FxFloor(x0), 256)
        Y == Mod(FxFloor(y0), 256)
        Z == Mod(FxFloor(z0), 256)
        A == At(p, X) + Y
        B == At(p, X + 1) + Y
        AA == At(p, A) + Z
        AB == At(p, A + 1) + Z
        BA == At(p, B) + Z
        BB == At(p, B + 1) + Z
    IN  <<X, X + 1, A, A + 1, B, B + 1, AA, AA + 1, AB, AB + 1, BA, BA + 1, BB, BB + 1>>

\* the loop of OctaveNoise.sample from octave i on; scale = 2^(i-1)
RECURSIVE sampleFrom(_, _, _, _, _, _)
sampleFrom(on, i, scale, x, y, z) ==
    IF i > Len(on.octaves)
    THEN 0
    ELSE FxMul(noise(on.octaves[i], x * scale, y * scale, z * scale), on.amplitudes[i])
            + sampleFrom(on, i + 1, scale * 2, x, y, z)

\* OctaveNoise.sample(x, y, z)
sample(on, x, y, z) == sampleFrom(on, 1, 1, x, y, z)

\* OctaveNoise.sample2D(x, z)
sample2D(on, x, z) == sample(on, x, 0, z)

RatNorm(a) ==
    LET g == Gcd(Abs(a[1]), a[2])
    IN  IF g = 0 THEN a ELSE <<a[1] \div g, a[2] \div g>>

\* a * b, reduced crosswise before multiplying
RatMul(a, b) ==
    LET x == RatNorm(<<a[1], b[2]>>)
        y == RatNorm(<<b[1], a[2]>>)
    IN  <<x[1] * y[1], x[2] * y[2]>>

\* the largest r with r * r <= n, searched between lo and hi
RECURSIVE ISqrtIn(_, _, _)
ISqrtIn(n, lo, hi) ==
    IF lo >= hi THEN lo
    ELSE LET mid == (lo + hi + 1) \div 2
         IN  IF mid * mid <= n THEN ISqrtIn(n, mid, hi) ELSE ISqrtIn(n, lo, mid - 1)

ISqrt(n) == ISqrtIn(n, 0, 46340)

\* Math.sqrt(n) < c and Math.sqrt(n) > c for a natural n and a rational c:
\* the root is kept exact (it is compared, never rounded)
SqrtLt(n, c) ==
    LET r == ISqrt(n)
    IN  IF c[1] >= (r + 1) * c[2] THEN TRUE
        ELSE IF c[1] <= r * c[2] THEN FALSE
        ELSE n * c[2] * c[2] < c[1] * c[1]

SqrtGt(n, c) ==
    LET r == ISqrt(n)
    IN  IF c[1] >= (r + 1) * c[2] THEN FALSE
        ELSE IF c[1] < r * c[2] THEN TRUE
        ELSE n * c[2] * c[2] > c[1] * c[1]

\* the square of the complex number c = <<re, im>>
CSquare(c) == <<c[1] * c[1] - c[2] * c[2], 2 * c[1] * c[2]>>

\* the denominator the fraction of a threshold is kept to: finer fractions
\* are rounded down to it
FineDen == 2 ^ 16

\* Math.sin(angle * 8) where the angle is a multiple of pi / 4: the double
\* is 0 on the positive x axis and a residue of some 1e-16 elsewhere, whose
\* sign is that of -z, or of -x on the negative x axis.  A residue stands as
\* 1 / FineDen: against the distance of an integer block it compares as the
\* double does.
\* the complex number c divided down until both parts are within 2^14
CShorten(c) ==
    LET m == IF Abs(c[1]) > Abs(c[2]) THEN Abs(c[1]) ELSE Abs(c[2])
        k == m \div (2 ^ 14) + 1
        part(v) == IF v < 0 THEN -((-v) \div k) ELSE v \div k
    IN  IF m <= 2 ^ 14 THEN c ELSE <<part(c[1]), part(c[2])>>

\* the sine from c8, the eighth power with every square shortened
Sin8Rounded(c8) == RatNorm(<<c8[2], ISqrt(c8[1] * c8[1] + c8[2] * c8[2])>>)

\* Math.sin(angle * 8) on the direction a : b in lowest terms, with n2 = a^2 + b^2:
\* for a short direction the imaginary part of (a + ib)^8 over n2^4, exactly
Sin8Direction(a, b, n2) ==
    IF n2 <= 2
    THEN (IF b = 0 THEN (IF a > 0 THEN <<0, 1>> ELSE <<-1, FineDen>>)
          ELSE IF b > 0 THEN <<-1, FineDen>>
          ELSE <<1, FineDen>>)
    ELSE IF n2 <= 215
    THEN RatNorm(<<CSquare(CSquare(CSquare(<<a, b>>)))[2], n2 * n2 * n2 * n2>>)
    ELSE Sin8Rounded(CShorten(CSquare(CShorten(CSquare(
                        CShorten(CSquare(CShorten(<<a, b>>))))))))

\* (x, z) divided by g, their greatest common divisor
Sin8Reduced(x, z, g) ==
    Sin8Direction(x \div g, z \div g, (x \div g) * (x \div g) + (z \div g) * (z \div g))

\* Math.sin(Math.atan2(z, x) * 8) = Im((x + iz)^8) / |x + iz|^8, computed on
\* the direction a : b of (x, z).  It is exact when (a^2 + b^2)^4 is within the
\* machine range; for a longer direction each square is shortened to 14 bits
\* before the next one, and the sine is the imaginary part over the rounded modulus.
Sin8(x, z) ==
    IF x = 0 /\ z = 0 THEN <<0, 1>>
    ELSE Sin8Reduced(x, z, Gcd(Abs(x), Abs(z)))

(***************************************************************************)
(* Seeds and strings.  A string is the tuple of its character codes.  A    *)
(* seed argument is [type |-> "number", num |-> n, str |-> <<>>] or        *)
(* [type |-> "string", num |-> 0, str |-> s].                              *)
(***************************************************************************)
\* the decimal digits of a natural number, as character codes
RECURSIVE Digits(_)
Digits(n) == IF n < 10 THEN <<48 + n>> ELSE Digits(n \div 10) \o <<48 + (n % 10)>>

\* the template literal `${seed}`
TemplateString(seed) ==
    IF seed.type = "string" THEN seed.str
    ELSE IF seed.num < 0 THEN <<45>> \o Digits(-seed.num)
    ELSE Digits(seed.num)

\* the signed 32-bit integer congruent to hi * 2^16 + lo
ToInt32(hi, lo) ==
    LET lo2 == Mod(lo, 65536)
        hi2 == Mod(hi + FloorDiv(lo, 65536), 65536)
    IN  IF hi2 >= 32768 THEN (hi2 - 65536) * 65536 + lo2 ELSE hi2 * 65536 + lo2

\* the pass with (hash << 5) + hash
hashStepPlus(hash, charCode) ==
    LET hi == FloorDiv(hash, 65536)
        lo == Mod(hash, 65536)
        shl == ToInt32(hi * 32, lo * 32)
    IN  ToInt32(FloorDiv(shl, 65536) + hi, (Mod(shl, 65536) + lo) + charCode)

\* one pass of the hashString loop:
\* hash = ((hash << 5) - hash) + charCode; hash = hash & hash
hashStep(hash, charCode) ==
    LET hi == FloorDiv(hash, 65536)
        lo == Mod(hash, 65536)
        shl == ToInt32(hi * 32, lo * 32)
    IN  ToInt32(FloorDiv(shl, 65536) - hi, (Mod(shl, 65536) - lo) + charCode)

RECURSIVE hashFrom(_, _, _)
hashFrom(str, i, hash) ==
    After(hash, IF i > Len(str) THEN hash ELSE hashFrom(str, i + 1, hashStep(hash, str[i])))

\* MinecraftWorldgen.hashString(str); FallbackWorldgen.hashString and the loop
\* in SeedExplorerApp.generate are the same statements
hashString(str) == hashFrom(str, 1, 0)

\* CubiomesWorldgen.hashString(str), from character i on with hash so far.
\* Its pass ends in "hash |= 0" where the other copies have "hash = hash & hash":
\* either statement converts hash to a signed 32-bit integer and keeps its bits.
RECURSIVE cubiomesHashString(_, _, _)
cubiomesHashString(str, i, hash) ==
    After(hash, IF i > Len(str) THEN hash
                ELSE cubiomesHashString(str, i + 1, hashStep(hash, str[i])))

\* typeof seed === 'string' ? this.hashString(seed) : Number(seed)
SeedValue(seed) == IF seed.type = "string" THEN hashString(seed.str) ELSE seed.num

(***************************************************************************)
(* MinecraftWorldgen (src/minecraft-worldgen.js)                           *)
(***************************************************************************)
\* the keys of initBiomeData(), by dimension
biomeData ==
    [overworld |->
        {"ocean", "deep_ocean", "frozen_ocean", "warm_ocean", "river", "frozen_river",
         "beach", "snowy_beach", "snowy_plains", "snowy_taiga", "grove", "frozen_peaks",
         "jagged_peaks", "plains", "forest", "birch_forest", "dark_forest", "taiga",
         "old_growth_spruce_taiga", "swamp", "jungle", "bamboo_jungle", "sparse_jungle",
         "savanna", "windswept_savanna", "desert", "badlands", "wooded_badlands",
         "windswept_hills", "stony_peaks", "mushroom_fields"},
     nether |->
        {"nether_wastes", "crimson_forest", "warped_forest", "soul_sand_valley",
         "basalt_deltas"},
     end |->
        {"the_end", "end_highlands", "end_midlands", "small_end_islands", "end_barrens"}]

\* getAvailableBiomes(dimension)
getAvailableBiomes(dimension) ==
    IF dimension \in DOMAIN biomeData THEN biomeData[dimension] ELSE biomeData.overworld

\* the generators initNoiseForSeed creates: in field order, each one's
\* octave count and amplitude list (as fixed-point values)
noiseConfigs ==
    <<[name |-> "temperature", octaves |-> 4, amplitudes |-> <<One, One \div 2, One \div 4, One \div 8>>],
      [name |-> "humidity", octaves |-> 4, amplitudes |-> <<One, One \div 2, One \div 4, One \div 8>>],
      [name |-> "continentalness", octaves |-> 3, amplitudes |-> <<One, One \div 2, One \div 4>>],
      [name |-> "erosion", octaves |-> 3, amplitudes |-> <<One, One \div 2, One \div 4>>],
      [name |-> "weirdness", octaves |-> 3, amplitudes |-> <<One, One \div 2, One \div 4>>],
      [name |-> "depth", octaves |-> 2, amplitudes |-> <<One, One \div 2>>]>>

\* the values of count successive random.nextLong() calls
RECURSIVE nextLongs(_, _)
RECURSIVE nextLongsAfter(_, _)
\* l is what the first of the calls returned
nextLongsAfter(l, count) == After(l, <<l.val>> \o nextLongs(l.rnd, count - 1))

\* every value the first nextLong() of random: the draws do not advance it
nextLongsRepeated(random, count) == [i \in 1..count |-> nextLong(random).val]

nextLongs(random, count) ==
    IF count = 0 THEN <<>> ELSE nextLongsAfter(nextLong(random), count)

\* the object initNoiseForSeed returns, with longs the values of the six
\* random.nextLong() calls in field order
noiseObject(longs) ==
    After(longs,
          [name \in {noiseConfigs[i].name : i \in DOMAIN noiseConfigs} |->
            LET i == CHOOSE k \in DOMAIN noiseConfigs : noiseConfigs[k].name = name
            IN  OctaveNoise(JavaRandom(longs[i]),
                            noiseConfigs[i].octaves, noiseConfigs[i].amplitudes)])

\* the body of initNoiseForSeed on seedValue: the six generators, each built
\* from a JavaRandom seeded with the next nextLong() of one root generator
buildNoise(seedValue) ==
    noiseObject(nextLongs(JavaRandom(U48FromInt(seedValue)), Len(noiseConfigs)))

\* the seed arguments the queries of the specifications below are made with:
\* the number 123, the string "123" and the number 7
SeedArgs ==
    <<[type |-> "number", num |-> 123, str |-> <<>>],
      [type |-> "string", num |-> 0, str |-> <<49, 50, 51>>],
      [type |-> "number", num |-> 7, str |-> <<>>]>>

Seeds == {SeedArgs[i] : i \in DOMAIN SeedArgs}

\* the generator sets of those seeds, built once: initNoiseForSeed is a pure
\* function of the seed value
RECURSIVE builtFrom(_)
builtFrom(i) ==
    IF i > Len(SeedArgs) THEN <<>>
    ELSE <<buildNoise(SeedValue(SeedArgs[i]))>> \o builtFrom(i + 1)

builtNoise == builtFrom(1)

\* A generator set is never changed after initNoiseForSeed has built it, and
\* it is determined by the seed value it was built from: the instance field
\* holds [seedValue |-> v] for the set built from v, and Generators gives
\* the six generators of such a value.
initNoiseForSeed(seed) == [seedValue |-> SeedValue(seed)]

Generators(noiseGens) ==
    builtNoise[CHOOSE i \in DOMAIN SeedArgs : SeedValue(SeedArgs[i]) = noiseGens.seedValue]

\* generator.sample2D(blockX / divisor, blockZ / divisor)
sampleBlock(generator, blockX, blockZ, divisor) ==
    <<sample2D(generator, FloorDiv(blockX * One, divisor), FloorDiv(blockZ * One, divisor)),
      One>>

\* getClimateParameters(noiseGens, blockX, blockZ): scale = 1 / 128.0, and
\* continentalness is sampled at scale * 0.5
getClimateParameters(noiseGens, blockX, blockZ) ==
    [name \in DOMAIN noiseGens |->
        sampleBlock(noiseGens[name], blockX, blockZ,
                    IF name = "continentalness" THEN 256 ELSE 128)]

\* the hot biomes without the closing return 'desert': the function ends
\* without a return and the call yields undefined
hotBiomeNoDefault(climate) ==
    IF Gt(climate.humidity, Dec(30)) THEN "jungle"
    ELSE IF Gt(climate.erosion, Dec(50)) /\ Gt(climate.continentalness, Dec(40)) THEN "badlands"
    ELSE IF Gt(climate.erosion, Dec(30)) THEN "wooded_badlands"
    ELSE "undefined"

\* the last branch of selectOverworldBiome, the hot biomes
hotBiome(climate) ==
    IF Gt(climate.humidity, Dec(30)) THEN "jungle"
    ELSE IF Gt(climate.erosion, Dec(50)) /\ Gt(climate.continentalness, Dec(40)) THEN "badlands"
    ELSE IF Gt(climate.erosion, Dec(30)) THEN "wooded_badlands"
    ELSE "desert"

\* selectOverworldBiome(climate, blockX, blockZ)
selectOverworldBiome(climate, blockX, blockZ) ==
    LET temperature == climate.temperature
        humidity == climate.humidity
        continentalness == climate.continentalness
        erosion == climate.erosion
        weirdness == climate.weirdness
    IN  IF Lt(continentalness, Dec(-30)) THEN
            IF Lt(temperature, Dec(-50)) THEN "frozen_ocean"
            ELSE IF Lt(continentalness, Dec(-60)) THEN "deep_ocean"
            ELSE IF Gt(temperature, Dec(50)) THEN "warm_ocean"
            ELSE "ocean"
        ELSE IF Lt(continentalness, Dec(-15)) THEN
            IF Lt(temperature, Dec(-40)) THEN "snowy_beach"
            ELSE IF Gt(temperature, Dec(60)) THEN "desert"
            ELSE "beach"
        ELSE IF Lt(RatAbs(weirdness), Dec(8)) /\ Gt(continentalness, Dec(-10))
                /\ Lt(continentalness, Dec(50)) THEN
            IF Lt(temperature, Dec(-40)) THEN "frozen_river" ELSE "river"
        ELSE IF Gt(continentalness, Dec(70)) /\ Gt(erosion, Dec(60))
                /\ Lt(RatAbs(weirdness), Dec(15)) THEN
            "mushroom_fields"
        ELSE IF Lt(temperature, Dec(-50)) THEN
            IF Lt(erosion, Dec(-30)) THEN "jagged_peaks"
            ELSE IF Lt(erosion, Dec(0)) THEN "frozen_peaks"
            ELSE IF Gt(humidity, Dec(30)) THEN "snowy_taiga"
            ELSE IF Gt(humidity, Dec(0)) THEN "grove"
            ELSE "snowy_plains"
        ELSE IF Lt(temperature, Dec(-15)) THEN
            IF Lt(erosion, Dec(-20)) THEN "stony_peaks"
            ELSE IF Lt(erosion, Dec(0)) /\ Gt(humidity, Dec(20)) THEN "taiga"
            ELSE IF Gt(humidity, Dec(40)) THEN "old_growth_spruce_taiga"
            ELSE IF Gt(humidity, Dec(0)) THEN "taiga"
            ELSE IF Gt(continentalness, Dec(50)) THEN "windswept_hills"
            ELSE "plains"
        ELSE IF Lt(temperature, Dec(25)) THEN
            IF Lt(humidity, Dec(-35)) THEN
                IF Gt(continentalness, Dec(50)) THEN "windswept_savanna" ELSE "plains"
            ELSE IF Gt(humidity, Dec(50)) THEN
                IF Gt(weirdness, Dec(30)) THEN "dark_forest" ELSE "forest"
            ELSE IF Gt(humidity, Dec(20)) THEN
                IF Gt(continentalness, Dec(40)) THEN "birch_forest" ELSE "swamp"
            ELSE IF Gt(humidity, Dec(-10)) THEN "forest"
            ELSE "plains"
        ELSE IF Lt(temperature, Dec(55)) THEN
            IF Lt(humidity, Dec(-20)) THEN
                IF Gt(erosion, Dec(40)) /\ Gt(continentalness, Dec(30)) THEN "badlands"
                ELSE IF Gt(erosion, Dec(20)) THEN "wooded_badlands"
                ELSE "savanna"
            ELSE IF Gt(humidity, Dec(40)) THEN
                IF Gt(weirdness, Dec(30)) THEN "bamboo_jungle" ELSE "jungle"
            ELSE IF Gt(humidity, Dec(0)) THEN "sparse_jungle"
            ELSE "savanna"
        ELSE hotBiome(climate)

\* the decision as FallbackWorldgen.getNetherBiome makes it: -0.3 for the
\* valley and no humidity test above 0.4
netherBiomeOfFallback(temp, humid, erosion) ==
    IF Lt(temp, Dec(-30)) THEN "soul_sand_valley"
    ELSE IF Gt(temp, Dec(40)) THEN "crimson_forest"
    ELSE IF Gt(humid, Dec(30)) THEN "warped_forest"
    ELSE IF Gt(erosion, Dec(50)) THEN "basalt_deltas"
    ELSE "nether_wastes"

\* the decision of getNetherBiome on the three sampled values
netherBiomeOf(temp, humid, erosion) ==
    IF Lt(temp, Dec(-40)) THEN "soul_sand_valley"
    ELSE IF Gt(temp, Dec(40)) THEN
        IF Lt(humid, Dec(0)) THEN "crimson_forest" ELSE "basalt_deltas"
    ELSE IF Gt(humid, Dec(30)) THEN "warped_forest"
    ELSE IF Gt(erosion, Dec(50)) THEN "basalt_deltas"
    ELSE "nether_wastes"

\* the three samples of getNetherBiome, scale = 1 / 80.0
netherSamples(noiseGens, blockX, blockZ) ==
    [name \in {"temperature", "humidity", "erosion"} |->
        sampleBlock(noiseGens[name], blockX, blockZ, 80)]

\* the decision on the samples
netherBiomeAt(samples) == netherBiomeOf(samples.temperature, samples.humidity, samples.erosion)

\* getNetherBiome(noiseGens, blockX, blockZ)
getNetherBiome(noiseGens, blockX, blockZ) == netherBiomeAt(netherSamples(noiseGens, blockX, blockZ))

\* Mixed numbers [q, r] over a denominator d stand for q + r / d, 0 <= r < d;
\* they keep a product with a sine of large denominator within the machine range
MixedAdd(a, b, d) ==
    IF a.r >= d - b.r
    THEN [q |-> a.q + b.q + 1, r |-> a.r - (d - b.r)]
    ELSE [q |-> a.q + b.q, r |-> a.r + b.r]

\* 2 * h
MixedDouble(h, d) == MixedAdd(h, h, d)

\* k * a for a natural k, by doubling
RECURSIVE MixedTimes(_, _, _)
MixedTimes(k, a, d) ==
    IF k = 0 THEN [q |-> 0, r |-> 0]
    ELSE IF k % 2 = 1 THEN MixedAdd(MixedDouble(MixedTimes(k \div 2, a, d), d), a, d)
    ELSE MixedDouble(MixedTimes(k \div 2, a, d), d)

\* k * (n / d) for a natural k and a rational n / d
MixedScale(k, rat) ==
    LET n == Abs(rat[1])
        d == rat[2]
        m == MixedTimes(k, [q |-> n \div d, r |-> n % d], d)
    IN  IF rat[1] >= 0 THEN m
        ELSE IF m.r = 0 THEN [q |-> -m.q, r |-> 0]
        ELSE [q |-> -m.q - 1, r |-> d - m.r]

\* the fraction r / d as <<numerator, denominator>> with denominator <= FineDen
MixedFraction(a, d) ==
    IF d <= FineDen THEN <<a.r, d>>
    ELSE <<MixedTimes(FineDen, [q |-> 0, r |-> a.r], d).q, FineDen>>

\* Math.sqrt(n) < q + f[1] / f[2] for a natural n; the last comparison is
\* a < b on BigInts below 2^48
SqrtLtMixed(n, q, f) ==
    LET r == ISqrt(n)
        e == n - r * r
    IN  IF q > r THEN TRUE
        ELSE IF q < r THEN FALSE
        ELSE LET a == U48Mul(U48FromInt(e), U48Mul(U48FromInt(f[2]), U48FromInt(f[2])))
                 b == U48Add(U48Mul(U48FromInt(2 * r),
                                    U48Mul(U48FromInt(f[1]), U48FromInt(f[2]))),
                             U48Mul(U48FromInt(f[1]), U48FromInt(f[1])))
             IN  \E i \in 1..4 : a[i] < b[i] /\ \A j \in (i + 1)..4 : a[j] = b[j]

\* the factor without the 0.3 of radialNoise
radialFactorWhole == RatMul(Dec(100), <<500, 1>>)[1]

\* the factor of Math.sin(angle * 8) in threshold: radialNoise * 500 is the
\* sine times 0.3 * 500, a whole number
radialFactor == RatMul(Dec(30), <<500, 1>>)[1]

\* the comparisons of getEndBiome once dist >= 1000; spread is
\* radialNoise * 500 as a mixed number over the denominator den
endBiomeBeyond(distSq, spread, den) ==
    IF SqrtLtMixed(distSq, 1000 + spread.q, MixedFraction(spread, den))
    THEN "small_end_islands"
    ELSE IF SqrtGt(distSq, <<2500, 1>>) THEN "end_highlands"
    ELSE IF SqrtGt(distSq, <<1800, 1>>) THEN "end_midlands"
    ELSE "end_barrens"

\* the rest of getEndBiome once dist >= 1000, on the value sin of
\* Math.sin(angle * 8): radialNoise = sin * 0.3, threshold = 1000 + radialNoise * 500
endBiomeOutside(distSq, sin) == endBiomeBeyond(distSq, MixedScale(radialFactor, sin), sin[2])

\* getEndBiome with dist <= 1000 in place of dist < 1000
getEndBiomeInclusive(blockX, blockZ) ==
    IF ~SqrtGt(blockX * blockX + blockZ * blockZ, <<1000, 1>>) THEN "the_end"
    ELSE endBiomeOutside(blockX * blockX + blockZ * blockZ, Sin8(blockX, blockZ))

\* getEndBiome(blockX, blockZ)
getEndBiome(blockX, blockZ) ==
    IF SqrtLt(blockX * blockX + blockZ * blockZ, <<1000, 1>>) THEN "the_end"
    ELSE endBiomeOutside(blockX * blockX + blockZ * blockZ, Sin8(blockX, blockZ))

\* the instance fields after the test of getBiomeAt on seedKey and the
\* assignments it guards
initialized(self, seed) ==
    IF self.noiseGenerators = Null \/ self.currentSeed # TemplateString(seed)
    THEN [currentSeed |-> TemplateString(seed), noiseGenerators |-> initNoiseForSeed(seed)]
    ELSE self

\* the biome getBiomeAt returns once the instance fields are after: the
\* dimension branches on the generators this.noiseGenerators holds
biomeAfter(after, dimension, blockX, blockZ) ==
    [biome |->
        IF dimension = "nether"
        THEN getNetherBiome(Generators(after.noiseGenerators), blockX, blockZ)
        ELSE IF dimension = "end" THEN getEndBiome(blockX, blockZ)
        ELSE selectOverworldBiome(
                getClimateParameters(Generators(after.noiseGenerators), blockX, blockZ),
                blockX, blockZ),
     self |-> after]

\* getBiomeAt on the instance fields self = [currentSeed, noiseGenerators]:
\* the biome returned and the fields after the call
getBiomeAt(self, seed, edition, version, dimension, blockX, blockZ) ==
    biomeAfter(initialized(self, seed), dimension, blockX, blockZ)

\* structureConfigs of getStructuresInArea, each dimension's entries in the
\* order of Object.entries
Config(type, spacing, separation, salt) ==
    [type |-> type, spacing |-> spacing, separation |-> separation, salt |-> salt]

structureConfigs ==
    [overworld |->
        <<Config("village", 32, 8, 10387312),
          Config("desert_pyramid", 32, 8, 14357617),
          Config("jungle_temple", 32, 8, 14357619),
          Config("swamp_hut", 32, 8, 14357620),
          Config("ocean_monument", 32, 5, 10387313),
          Config("mansion", 80, 20, 10387319),
          Config("outpost", 32, 8, 165745296),
          Config("shipwreck", 24, 4, 165745295)>>,
     nether |->
        <<Config("fortress", 27, 4, 30084232),
          Config("bastion", 27, 4, 30084232)>>,
     end |->
        <<Config("end_city", 20, 11, 10387313)>>]

\* the '_'-separated words of a biome id; every word the placement rules look
\* for is a whole word of the catalog and part of no other word, so that
\* biome.includes(word) is membership here
BiomeWords(biome) ==
    CASE biome = "ocean" -> {"ocean"}
      [] biome = "deep_ocean" -> {"deep", "ocean"}
      [] biome = "frozen_ocean" -> {"frozen", "ocean"}
      [] biome = "warm_ocean" -> {"warm", "ocean"}
      [] biome = "river" -> {"river"}
      [] biome = "frozen_river" -> {"frozen", "river"}
      [] biome = "beach" -> {"beach"}
      [] biome = "snowy_beach" -> {"snowy", "beach"}
      [] biome = "snowy_plains" -> {"snowy", "plains"}
      [] biome = "snowy_taiga" -> {"snowy", "taiga"}
      [] biome = "grove" -> {"grove"}
      [] biome = "frozen_peaks" -> {"frozen", "peaks"}
      [] biome = "jagged_peaks" -> {"jagged", "peaks"}
      [] biome = "plains" -> {"plains"}
      [] biome = "forest" -> {"forest"}
      [] biome = "birch_forest" -> {"birch", "forest"}
      [] biome = "dark_forest" -> {"dark", "forest"}
      [] biome = "taiga" -> {"taiga"}
      [] biome = "old_growth_spruce_taiga" -> {"old", "growth", "spruce", "taiga"}
      [] biome = "swamp" -> {"swamp"}
      [] biome = "jungle" -> {"jungle"}
      [] biome = "bamboo_jungle" -> {"bamboo", "jungle"}
      [] biome = "sparse_jungle" -> {"sparse", "jungle"}
      [] biome = "savanna" -> {"savanna"}
      [] biome = "windswept_savanna" -> {"windswept", "savanna"}
      [] biome = "desert" -> {"desert"}
      [] biome = "badlands" -> {"badlands"}
      [] biome = "wooded_badlands" -> {"wooded", "badlands"}
      [] biome = "windswept_hills" -> {"windswept", "hills"}
      [] biome = "stony_peaks" -> {"stony", "peaks"}
      [] biome = "mushroom_fields" -> {"mushroom", "fields"}
      [] biome = "nether_wastes" -> {"nether", "wastes"}
      [] biome = "crimson_forest" -> {"crimson", "forest"}
      [] biome = "warped_forest" -> {"warped", "forest"}
      [] biome = "soul_sand_valley" -> {"soul", "sand", "valley"}
      [] biome = "basalt_deltas" -> {"basalt", "deltas"}
      [] biome = "the_end" -> {"the", "end"}
      [] biome = "end_highlands" -> {"end", "highlands"}
      [] biome = "end_midlands" -> {"end", "midlands"}
      [] biome = "small_end_islands" -> {"small", "end", "islands"}
      [] biome = "end_barrens" -> {"end", "barrens"}

\* biome.includes(word)
Includes(biome, word) == word \in BiomeWords(biome)

\* canStructureSpawnInBiome(structureType, biome); a type without a rule is
\* rules[structureType] || false
canStructureSpawnInBiome(structureType, biome) ==
    CASE structureType = "village" ->
            \E b \in {"plains", "desert", "savanna", "taiga", "snowy"} : Includes(biome, b)
      [] structureType = "desert_pyramid" -> Includes(biome, "desert")
      [] structureType = "jungle_temple" -> Includes(biome, "jungle")
      [] structureType = "swamp_hut" -> Includes(biome, "swamp")
      [] structureType = "ocean_monument" -> Includes(biome, "ocean")
      [] structureType = "mansion" -> Includes(biome, "forest")
      [] structureType = "outpost" ->
            ~Includes(biome, "ocean") /\ ~Includes(biome, "mushroom")
      [] structureType = "shipwreck" -> Includes(biome, "ocean") \/ Includes(biome, "beach")
      [] structureType = "fortress" -> TRUE
      [] structureType = "bastion" -> TRUE
      [] structureType = "end_city" -> biome = "end_highlands"
      [] OTHER -> FALSE

\* chunkZ is drawn below spacing, not below spacing - separation
candidateChunkWide(c, config, regionX, regionZ) ==
    After(c, [type |-> config.type,
              blockX |-> (regionX * config.spacing + c.val) * 16 + 8,
              blockZ |-> (regionZ * config.spacing
                            + nextInt(c.rnd, config.spacing).val) * 16 + 8])

\* chunkX and chunkZ, and blockX = chunkX * 16 + 8, blockZ = chunkZ * 16 + 8;
\* c is what the first random.nextInt(spacing - separation) returned
candidateChunk(c, config, regionX, regionZ) ==
    After(c, [type |-> config.type,
              blockX |-> (regionX * config.spacing + c.val) * 16 + 8,
              blockZ |-> (regionZ * config.spacing
                            + nextInt(c.rnd, config.spacing - config.separation).val) * 16 + 8])

\* regionSeed from the two values drawn: a sum of products below 2^53, taken
\* modulo 2^48 as setSeed does
regionSeed(v1, v2, seedValue, salt, regionX, regionZ) ==
    U48Add(U48Add(U48Mul(U48FromInt(regionX), U48FromInt(v1)),
                  U48Mul(U48FromInt(regionZ), U48FromInt(v2))),
           U48Add(U48FromInt(seedValue), U48FromInt(salt)))

\* r is what random.nextInt(1013904223) returned
regionDrawn(r, seedValue, config, regionX, regionZ) ==
    After(r, candidateChunk(
                nextInt(setSeed(regionSeed(r.val, nextInt(r.rnd, 1664525).val,
                                           seedValue, config.salt, regionX, regionZ)),
                        config.spacing - config.separation),
                config, regionX, regionZ))

\* the regions from the second value of regionX on
regionListInner(minRegionX, minRegionZ, maxRegionX, maxRegionZ, countZ) ==
    IF maxRegionX < minRegionX + 1 \/ countZ <= 0 THEN <<>>
    ELSE [k \in 1..((maxRegionX - minRegionX) * countZ) |->
            <<minRegionX + 1 + (k - 1) \div countZ, minRegionZ + ((k - 1) % countZ)>>]

\* the regions of one configuration in loop order (regionX outer, regionZ
\* inner): the k-th pass of the inner loop body, for countZ passes per regionX
regionList(minRegionX, minRegionZ, maxRegionX, maxRegionZ, countZ) ==
    IF maxRegionX < minRegionX \/ countZ <= 0 THEN <<>>
    ELSE [k \in 1..((maxRegionX - minRegionX + 1) * countZ) |->
            <<minRegionX + (k - 1) \div countZ, minRegionZ + ((k - 1) % countZ)>>]

\* the loops without the bounds check: every candidate goes on to the biome check
inBoundsSkipped(cands, minBlockX, minBlockZ, maxBlockX, maxBlockZ) == cands

\* the candidates of the regions that pass the bounds check, in loop order
inBounds(cands, minBlockX, minBlockZ, maxBlockX, maxBlockZ) ==
    SelectSeq(cands, LAMBDA c : c.blockX >= minBlockX /\ c.blockX <= maxBlockX
                                /\ c.blockZ >= minBlockZ /\ c.blockZ <= maxBlockZ)

\* the candidates of the regions, in loop order: the body of the region loops
\* up to the bounds check gives the candidate block of the type in one region
regionCandidates(seedValue, config, regions) ==
    [i \in DOMAIN regions |->
        regionDrawn(nextInt(JavaRandom(U48FromInt(seedValue)), 1013904223),
                    seedValue, config, regions[i][1], regions[i][2])]

\* the candidates of one configuration that pass the bounds check, in loop order
configCandidates(seedValue, config, minBlockX, minBlockZ, maxBlockX, maxBlockZ) ==
    inBounds(regionCandidates(seedValue, config,
                regionList(FloorDiv(minBlockX, 16 * config.spacing),
                           FloorDiv(minBlockZ, 16 * config.spacing),
                           FloorDiv(maxBlockX, 16 * config.spacing),
                           FloorDiv(maxBlockZ, 16 * config.spacing),
                           FloorDiv(maxBlockZ, 16 * config.spacing)
                                - FloorDiv(minBlockZ, 16 * config.spacing) + 1)),
             minBlockX, minBlockZ, maxBlockX, maxBlockZ)

\* the concatenation of the sequences lists[i], lists[i + 1], ...
RECURSIVE concatFrom(_, _)
concatFrom(lists, i) ==
    IF i > Len(lists) THEN <<>> ELSE lists[i] \o concatFrom(lists, i + 1)

\* all candidates that pass the bounds check, configuration by configuration
candidatesOf(configs, seedValue, minBlockX, minBlockZ, maxBlockX, maxBlockZ) ==
    concatFrom([i \in DOMAIN configs |->
                    configCandidates(seedValue, configs[i],
                                     minBlockX, minBlockZ, maxBlockX, maxBlockZ)], 1)

\* the push of one candidate c; b is what getBiomeAt returned for its block
pushed(b, structures, c) ==
    [structures |-> IF canStructureSpawnInBiome(c.type, b.biome)
                    THEN Append(structures, c) ELSE structures,
     self |-> b.self]

\* the biome check of one candidate c, a getBiomeAt call on the instance;
\* st holds the structures pushed so far and the instance fields
pushOne(st, c, seed, edition, version, dimension) ==
    pushed(getBiomeAt(st.self, seed, edition, version, dimension, c.blockX, c.blockZ),
           st.structures, c)

\* the biome checks of the candidates lo .. hi in loop order; the range is
\* halved so that the evaluation depth stays logarithmic in its length
RECURSIVE pushRange(_, _, _, _, _, _, _, _)
RECURSIVE pushUpper(_, _, _, _, _, _, _, _)
\* the checks from lo to hi, after the checks below lo have produced lower
pushUpper(lower, cands, lo, hi, seed, edition, version, dimension) ==
    After(lower, pushRange(lower, cands, lo, hi, seed, edition, version, dimension))

pushRange(st, cands, lo, hi, seed, edition, version, dimension) ==
    IF lo > hi THEN st
    ELSE IF lo = hi THEN pushOne(st, cands[lo], seed, edition, version, dimension)
    ELSE pushUpper(pushRange(st, cands, lo, (lo + hi) \div 2, seed, edition, version, dimension),
                   cands, (lo + hi) \div 2 + 1, hi, seed, edition, version, dimension)

\* the loops of getStructuresInArea on the candidates cands
pushAll(self, cands, seed, edition, version, dimension) ==
    After(cands, pushRange([structures |-> <<>>, self |-> self], cands, 1, Len(cands),
                           seed, edition, version, dimension))

\* getStructuresInArea on the instance fields self: the array returned and
\* the fields after the call
getStructuresInArea(self, seed, edition, version, dimension, minBlockX, minBlockZ, maxBlockX, maxBlockZ) ==
    IF dimension \notin DOMAIN structureConfigs
    THEN [structures |-> <<>>, self |-> self]
    ELSE pushAll(self,
                 candidatesOf(structureConfigs[dimension], SeedValue(seed),
                              minBlockX, minBlockZ, maxBlockX, maxBlockZ),
                 seed, edition, version, dimension)

(***************************************************************************)
(* Slime chunks (src/unnamed/part_001, src/minecraft-worldgen.js)          *)
(***************************************************************************)
\* a shift by 16 in place of 17
slimeBits16(rndSeed) == U48Shr(rndSeed, 16)

\* the shift of isJavaSlimeChunk: rndSeed >> 17n
slimeBits(rndSeed) == U48Shr(rndSeed, 17)

\* isJavaSlimeChunk(seed, chunkX, chunkZ), BigInts modulo 2^48; the factors of
\* n1 .. n4 are 0x4c1906n, 0x5ac0dbn, 0x4307a7n and 0x5f24fn, and 987234911
\* is 0x3ad8025fn
isJavaSlimeChunk(seed, chunkX, chunkZ) ==
    LET worldSeed == U48FromInt(seed)
        n1 == U48Mul(U48Mul(U48FromInt(chunkX), U48FromInt(chunkX)), U48FromInt(4987142))
        n2 == U48Mul(U48FromInt(chunkX), U48FromInt(5947611))
        n3 == U48Mul(U48Mul(U48FromInt(chunkZ), U48FromInt(chunkZ)), U48FromInt(4392871))
        n4 == U48Mul(U48FromInt(chunkZ), U48FromInt(389711))
        rndSeed0 == U48Xor(U48Add(U48Add(U48Add(U48Add(worldSeed, n1), n2), n3), n4),
                           U48FromInt(987234911))
        rndSeed1 == U48Xor(rndSeed0, MULTIPLIER)
        rndSeed2 == U48Add(U48Mul(rndSeed1, MULTIPLIER), ADDEND)
        res == U48ModSmall(slimeBits(rndSeed2), 10)
    IN  res = 0

(***************************************************************************)
(* The MinecraftWorldgen instance as a state machine                       *)
(***************************************************************************)
\* the instance fields the queries read and write
Self == [currentSeed |-> currentSeed, noiseGenerators |-> noiseGenerators]

\* after new MinecraftWorldgen(): noiseGenerators = null, currentSeed not set
Init ==
    /\ noiseGenerators = Null
    /\ currentSeed = Undefined
    /\ call = [op |-> "none"]
    /\ result = Undefined
    /\ pinned = Null
    /\ javaRandom = Null /\ cubiomes = Null /\ heap = Null /\ app = Null

\* the record of a getBiomeAt call
BiomeCall(seed, edition, version, dimension, blockX, blockZ) ==
    [op |-> "getBiomeAt", seed |-> seed, edition |-> edition, version |-> version,
     dimension |-> dimension, blockX |-> blockX, blockZ |-> blockZ]

\* the record of a getStructuresInArea call
AreaCall(seed, edition, version, dimension, minBlockX, minBlockZ, maxBlockX, maxBlockZ) ==
    [op |-> "getStructuresInArea", seed |-> seed, edition |-> edition, version |-> version,
     dimension |-> dimension, minBlockX |-> minBlockX, minBlockZ |-> minBlockZ,
     maxBlockX |-> maxBlockX, maxBlockZ |-> maxBlockZ]

\* the call made returns value and leaves the instance fields self
Return(made, value, self, pin) ==
    /\ noiseGenerators' = self.noiseGenerators
    /\ currentSeed' = self.currentSeed
    /\ call' = made
    /\ result' = value
    /\ pinned' = IF pin THEN [call |-> made, result |-> value] ELSE pinned
    /\ UNCHANGED <<javaRandom, cubiomes, heap, app>>

\* r is what getBiomeAt returned
BiomeReturn(made, r, pin) == Return(made, r.biome, r.self, pin)

\* r is what getStructuresInArea returned
AreaReturn(made, r, pin) == Return(made, r.structures, r.self, pin)

\* one getBiomeAt call; with pin, the call and its result are the ones kept
\* for comparison with later calls
GetBiomeAt(seed, edition, version, dimension, blockX, blockZ, pin) ==
    BiomeReturn(BiomeCall(seed, edition, version, dimension, blockX, blockZ),
                getBiomeAt(Self, seed, edition, version, dimension, blockX, blockZ), pin)

\* one getStructuresInArea call on the rectangle area = <<minBlockX, minBlockZ,
\* maxBlockX, maxBlockZ>>
GetStructuresInArea(seed, edition, version, dimension, area, pin) ==
    AreaReturn(AreaCall(seed, edition, version, dimension, area[1], area[2], area[3], area[4]),
               getStructuresInArea(Self, seed, edition, version, dimension,
                                   area[1], area[2], area[3], area[4]), pin)

\* the blocks queried in the overworld: on the lattice of multiples of 64,
\* where the noise coordinates are whole or half
CacheBlocks == {<<-256, -128>>, <<0, 0>>, <<64, 128>>}

\* the rectangle scanned between biome queries
CacheArea == <<-100, -400, 300, 0>>

\* biome queries on one instance with any seed, number or string, and
\* structure scans between them
Next ==
    \/ \E seed \in Seeds, b \in CacheBlocks, pin \in BOOLEAN :
            /\ pin => pinned = Null
            /\ GetBiomeAt(seed, "Java", "1.20", "overworld", b[1], b[2], pin)
    \/ \E seed \in Seeds :
            GetStructuresInArea(seed, "Java", "1.20", "overworld", CacheArea, FALSE)

Spec == Init /\ [][Next]_vars

(***************************************************************************)
(* One query on an instance in any state earlier queries can leave it in   *)
(***************************************************************************)
\* the instance is in one of its states and a call is about to be made.  The
\* instance fields are those of a new instance or, for each seed argument, the
\* fields its first getBiomeAt call leaves; among the dimensions passed,
\* "aether" is no dimension of the program.  The blocks queried in the end
\* are below distance 1000 from the origin and at distance 1000 and above;
\* they are multiples of 40 in the nether and of 64 in the overworld, where
\* the noise coordinates are whole or half.
QueryInit ==
    /\ \E self \in {[currentSeed |-> Undefined, noiseGenerators |-> Null]}
                    \cup {initialized([currentSeed |-> Undefined, noiseGenerators |-> Null],
                                      seed) : seed \in Seeds} :
            /\ noiseGenerators = self.noiseGenerators
            /\ currentSeed = self.currentSeed
    /\ \E dimension \in {"overworld", "nether", "end", "aether"}, seed \in Seeds :
            \/ \E edition \in {"Java", "Bedrock"},
                    b \in IF dimension = "end" THEN
                              {<<0, 0>>, <<999, 0>>, <<0, -999>>, <<999, 44>>, <<-600, -799>>,
                               <<707, 707>>, <<1000, 0>>, <<0, 1000>>, <<0, -1000>>,
                               <<-1000, 0>>, <<600, 800>>, <<-600, -800>>, <<708, 708>>,
                               <<500, 1000>>, <<1100, 200>>, <<-2000, 1500>>, <<3000, 0>>}
                          ELSE IF dimension = "nether"
                          THEN {<<0, 0>>, <<40, -80>>, <<-120, 200>>}
                          ELSE CacheBlocks :
                    call = BiomeCall(seed, edition, "1.20", dimension, b[1], b[2])
            \/ \E a \in IF dimension = "end"
                          THEN {<<2400, -400, 3400, 600>>, <<-3400, -600, -2400, 400>>}
                          ELSE IF dimension = "nether" THEN {<<-500, -500, 500, 500>>}
                          ELSE {CacheArea, <<-1000, -1000, -200, -200>>, <<0, 0, 1200, 900>>} :
                    call = AreaCall(seed, "Java", "1.20", dimension, a[1], a[2], a[3], a[4])
    /\ result = Undefined
    /\ pinned = Null
    /\ javaRandom = Null /\ cubiomes = Null /\ heap = Null /\ app = Null

\* the call is made: pinned holds it and its result from then on
QueryBiome ==
    /\ call.op = "getBiomeAt"
    /\ pinned = Null
    /\ GetBiomeAt(call.seed, call.edition, call.version, call.dimension,
                  call.blockX, call.blockZ, TRUE)

QueryArea ==
    /\ call.op = "getStructuresInArea"
    /\ pinned = Null
    /\ GetStructuresInArea(call.seed, call.edition, call.version, call.dimension,
                           <<call.minBlockX, call.minBlockZ, call.maxBlockX, call.maxBlockZ>>,
                           TRUE)

QueryNext == QueryBiome \/ QueryArea

QuerySpec == QueryInit /\ [][QueryNext]_vars

(***************************************************************************)
(* The classifiers and the slime-chunk test applied to one input           *)
(***************************************************************************)
\* the values of a climate parameter, in hundredths: on both sides of the
\* thresholds selectOverworldBiome compares it with, and outside [-1, 1]
ClimateGrid ==
    [temperature |-> {-200, -50, -45, -40, -15, 0, 30, 55, 61, 200},
     humidity |-> {-200, -25, -5, 10, 25, 35, 45, 55},
     continentalness |-> {-200, -60, -45, -30, -20, -15, -10, 0, 45, 50, 80},
     erosion |-> {-200, -25, -10, 25, 45, 61},
     weirdness |-> {-200, -10, -8, 0, 7, 10, 35}]

EndStride == 20

EndSteps == 130

SlimeRadius == 3

\* one input is about to be passed: climate values in hundredths, on both
\* sides of the thresholds compared with; end blocks at the multiples of
\* EndStride up to EndSteps along each direction
FunctionInit ==
    /\ noiseGenerators = Null
    /\ currentSeed = Undefined
    /\ \/ \E climate \in [temperature : {Dec(h) : h \in ClimateGrid.temperature},
                            humidity : {Dec(h) : h \in ClimateGrid.humidity},
                            continentalness : {Dec(h) : h \in ClimateGrid.continentalness},
                            erosion : {Dec(h) : h \in ClimateGrid.erosion},
                            weirdness : {Dec(h) : h \in ClimateGrid.weirdness}] :
                call = [op |-> "selectOverworldBiome", climate |-> climate]
       \/ \E temp \in {-300, -41, -40, -39, 0, 39, 40, 41, 300},
                humid \in {-300, -1, 0, 1, 29, 30, 31, 300},
                erosion \in {-300, 0, 49, 50, 51, 300} :
                call = [op |-> "getNetherBiome", temp |-> Dec(temp), humid |-> Dec(humid),
                        erosion |-> Dec(erosion)]
       \/ \E d \in {<<1, 0>>, <<0, 1>>, <<-1, 0>>, <<0, -1>>, <<1, 1>>, <<-1, 1>>, <<-1, -1>>,
                       <<1, 2>>, <<2, 1>>, <<-1, 2>>, <<1, -2>>, <<3, 4>>, <<-3, -4>>, <<4, -3>>},
                k \in 1..EndSteps :
                call = [op |-> "getEndBiome", blockX |-> d[1] * k * EndStride,
                        blockZ |-> d[2] * k * EndStride]
       \/ \E seed \in {0, 123, -5, 48690, 2000000011, -1999999999},
                chunkX, chunkZ \in (-SlimeRadius)..SlimeRadius :
                call = [op |-> "isJavaSlimeChunk", seed |-> seed,
                        chunkX |-> chunkX, chunkZ |-> chunkZ]
    /\ result = Undefined
    /\ pinned = Null
    /\ javaRandom = Null /\ cubiomes = Null /\ heap = Null /\ app = Null

\* the function is applied: pinned holds the call and its result from then on
FunctionNext ==
    \/ /\ call.op = "selectOverworldBiome" /\ pinned = Null
       /\ Return(call, selectOverworldBiome(call.climate, 0, 0), Self, TRUE)
    \/ /\ call.op = "getNetherBiome" /\ pinned = Null
       /\ Return(call, netherBiomeOf(call.temp, call.humid, call.erosion), Self, TRUE)
    \/ /\ call.op = "getEndBiome" /\ pinned = Null
       /\ Return(call, getEndBiome(call.blockX, call.blockZ), Self, TRUE)
    \/ /\ call.op = "isJavaSlimeChunk" /\ pinned = Null
       /\ Return(call, isJavaSlimeChunk(call.seed, call.chunkX, call.chunkZ), Self, TRUE)

FunctionSpec == FunctionInit /\ [][FunctionNext]_vars

(***************************************************************************)
(* The seed hash, JavaRandom and the noise classes applied to one input    *)
(***************************************************************************)
\* the longest string hashed
HashLen == 6

\* one call is about to be made.  A JavaRandom instance is in any state of
\* its 48-bit register (setSeed reaches each of them); a seed passed to
\* setSeed is the 64-bit integer hi * 2^48 + mid * 2^24 + lo; args is the
\* argument list of nextInt, empty for nextInt().
GeneratorInit ==
    /\ noiseGenerators = Null
    /\ currentSeed = Undefined
    /\ \/ \E n \in 0..HashLen : \E str \in [1..n -> {49, 122, 65535}] :
                call = [op |-> "hashString", str |-> str]
       \/ \E l0 \in {0, 11, 4095}, l1 \in {0, 2730}, l2 \in {1, 4095},
                l3 \in {0, 1365, 2048, 4095} :
            \/ \E bits \in 1..32 :
                    call = [op |-> "next", rnd |-> [seed |-> <<l0, l1, l2, l3>>], bits |-> bits]
            \/ \E args \in {<<>>, <<0>>, <<3>>, <<10>>, <<1000>>, <<1073741825>>,
                              <<2147483647>>}
                                \cup {<<2 ^ k>> : k \in 0..30} :
                    call = [op |-> "nextInt", rnd |-> [seed |-> <<l0, l1, l2, l3>>],
                            args |-> args]
            \/ \E op \in {"nextLong", "nextDouble"} :
                    call = [op |-> op, rnd |-> [seed |-> <<l0, l1, l2, l3>>]]
       \/ \E hi \in {-32768, -2, -1, 0, 1, 32767}, mid \in {0, 6155980, 16777215},
                lo \in {0, 1, 15525485, 16777215} :
                call = [op |-> "setSeed", rnd |-> JavaRandom(U48FromInt(0)),
                        seed |-> [hi |-> hi, mid |-> mid, lo |-> lo]]
       \/ \E seed \in {0, 1, 123, -5, 48690, 2000000011} :
                call = [op |-> "PerlinNoise", rnd |-> JavaRandom(U48FromInt(seed))]
       \/ \E seed \in Seeds :
            \/ call = [op |-> "initNoiseForSeed", seed |-> seed]
            \/ \E i \in DOMAIN noiseConfigs, x, y, z \in {-256, -1, 0, 2, 255} :
                \E p \in {Generators(initNoiseForSeed(seed))[noiseConfigs[i].name].octaves[j] :
                                j \in 1..noiseConfigs[i].octaves} :
                    \E half \in {0, One \div 2} :
                        call = [op |-> "noise", p |-> p, x |-> x * One + half,
                                y |-> y * One, z |-> z * One + half]
    /\ result = Undefined
    /\ pinned = Null
    /\ javaRandom = Null /\ cubiomes = Null /\ heap = Null /\ app = Null

\* the call is made: pinned holds it and its result from then on.  A
\* JavaRandom method returns [val, rnd]: its value and the instance after it.
HashString ==
    /\ call.op = "hashString" /\ pinned = Null
    /\ Return(call, hashString(call.str), Self, TRUE)

NextBits ==
    /\ call.op = "next" /\ pinned = Null
    /\ Return(call, next(call.rnd, call.bits), Self, TRUE)

\* a call without argument leaves bound undefined: !bound holds as it does for 0
NextInt ==
    /\ call.op = "nextInt" /\ pinned = Null
    /\ Return(call, nextInt(call.rnd, IF call.args = <<>> THEN 0 ELSE call.args[1]),
              Self, TRUE)

NextLong ==
    /\ call.op = "nextLong" /\ pinned = Null
    /\ Return(call, nextLong(call.rnd), Self, TRUE)

NextDouble ==
    /\ call.op = "nextDouble" /\ pinned = Null
    /\ Return(call, nextDouble(call.rnd), Self, TRUE)

\* BigInt(seed) is carried modulo 2^48: the parts mid and lo of the seed
SetSeed ==
    /\ call.op = "setSeed" /\ pinned = Null
    /\ Return(call,
              [val |-> Undefined,
               rnd |-> setSeed(<<call.seed.lo % Base, call.seed.lo \div Base,
                                 call.seed.mid % Base, call.seed.mid \div Base>>)],
              Self, TRUE)

NewPerlinNoise ==
    /\ call.op = "PerlinNoise" /\ pinned = Null
    /\ Return(call, PerlinNoise(call.rnd), Self, TRUE)

InitNoiseForSeed ==
    /\ call.op = "initNoiseForSeed" /\ pinned = Null
    /\ Return(call, Generators(initNoiseForSeed(call.seed)), Self, TRUE)

Noise ==
    /\ call.op = "noise" /\ pinned = Null
    /\ Return(call, noise(call.p, call.x, call.y, call.z), Self, TRUE)

GeneratorNext ==
    \/ HashString
    \/ NextBits
    \/ NextInt
    \/ NextLong
    \/ NextDouble
    \/ SetSeed
    \/ NewPerlinNoise
    \/ InitNoiseForSeed
    \/ Noise

GeneratorSpec == GeneratorInit /\ [][GeneratorNext]_vars

(***************************************************************************)
(* Properties of the cached generator set                                  *)
(***************************************************************************)
\* C1: on one instance, a getBiomeAt call whose arguments are those of the
\* pinned earlier call returns the biome the pinned call returned, whatever
\* getBiomeAt and getStructuresInArea calls, with seeds given as numbers or
\* as strings, were made before or between the two.
C1_SameArgumentsSameBiome ==
    (pinned # Null /\ call.op = "getBiomeAt" /\ call = pinned.call)
        => result = pinned.result

\* C2: after a getBiomeAt call the cached generator set is the one
\* initNoiseForSeed builds for the seed argument of that call.
C2_CacheIsOfLastSeed ==
    call.op = "getBiomeAt"
        => Generators(noiseGenerators) = Generators(initNoiseForSeed(call.seed))

(***************************************************************************)
(* Properties of one query                                                 *)
(***************************************************************************)
\* C3: a getBiomeAt call with an edition other than "Java", or with a
\* dimension that is none of overworld, nether and end, returns "plains".
C3_DefaultIsPlains ==
    (pinned # Null /\ call.op = "getBiomeAt"
        /\ (call.edition # "Java" \/ call.dimension \notin {"overworld", "nether", "end"}))
        => result = "plains"

\* C7: a getBiomeAt call for the dimension "end" returns "the_end" exactly
\* for the blocks with blockX^2 + blockZ^2 < 1000^2, whatever the seed.
C7_TheEndWithinRadius ==
    (pinned # Null /\ call.op = "getBiomeAt" /\ call.dimension = "end")
        => (result = "the_end"
                <=> call.blockX * call.blockX + call.blockZ * call.blockZ < 1000 * 1000)

\* an end query at distance 1000 exactly has returned another biome
C7_AtRadius ==
    /\ pinned # Null /\ call.op = "getBiomeAt" /\ call.dimension = "end"
    /\ call.blockX = 600 /\ call.blockZ = 800
    /\ call.seed = SeedArgs[2]
    /\ result # "the_end"

\* C9: every candidate MinecraftWorldgen.getStructuresInArea returns has its
\* blockX within [minBlockX, maxBlockX] and its blockZ within
\* [minBlockZ, maxBlockZ], for every seed, dimension and rectangle.
C9_StructuresInsideArea ==
    (pinned # Null /\ call.op = "getStructuresInArea")
        => \A i \in DOMAIN result :
                /\ result[i].blockX >= call.minBlockX /\ result[i].blockX <= call.maxBlockX
                /\ result[i].blockZ >= call.minBlockZ /\ result[i].blockZ <= call.maxBlockZ

\* a scan of a rectangle of negative coordinates has returned candidates
C9_NegativeArea ==
    /\ pinned # Null /\ call.op = "getStructuresInArea"
    /\ call.maxBlockX < 0 /\ call.maxBlockZ < 0
    /\ Len(result) > 0

(***************************************************************************)
(* Properties of the classifiers and of the slime-chunk test               *)
(***************************************************************************)
\* C4: for every climate vector, values outside [-1, 1] included,
\* selectOverworldBiome returns a key of getAvailableBiomes('overworld').
C4_OverworldBiomeInCatalog ==
    (pinned # Null /\ call.op = "selectOverworldBiome")
        => result \in getAvailableBiomes("overworld")

\* a vector with every value outside [-1, 1] has reached the last return
C4_OutsideUnitRange ==
    /\ pinned # Null /\ call.op = "selectOverworldBiome"
    /\ call.climate = [temperature |-> Dec(200), humidity |-> Dec(-200),
                       continentalness |-> Dec(80), erosion |-> Dec(-200),
                       weirdness |-> Dec(-200)]
    /\ result = "desert"

\* the river and mushroom conditions as the claim C5 states them
riverClaimed(c, w) ==
    Lt(w, Dec(8)) /\ Gt(w, Dec(-8)) /\ Gt(c, Dec(-10)) /\ Lt(c, Dec(50))

mushroomClaimed(c, e, w) ==
    Gt(c, Dec(70)) /\ Gt(e, Dec(60)) /\ Lt(w, Dec(15)) /\ Gt(w, Dec(-15))

\* what C5 says of the result on the climate (t, c, e, w)
bandsClaimed(biome, t, c, e, w) ==
    IF Lt(c, Dec(-30)) THEN
        biome = (IF Lt(t, Dec(-50)) THEN "frozen_ocean"
                 ELSE IF Lt(c, Dec(-60)) THEN "deep_ocean"
                 ELSE IF Gt(t, Dec(50)) THEN "warm_ocean"
                 ELSE "ocean")
    ELSE IF Lt(c, Dec(-15)) THEN biome \in {"snowy_beach", "desert", "beach"}
    ELSE IF riverClaimed(c, w) THEN biome \in {"frozen_river", "river"}
    ELSE IF mushroomClaimed(c, e, w) THEN biome = "mushroom_fields"
    ELSE biome \notin {"frozen_ocean", "deep_ocean", "warm_ocean", "ocean", "snowy_beach",
                       "beach", "frozen_river", "river", "mushroom_fields"}

C6_NetherRulesInOrder ==
    (pinned # Null /\ call.op = "getNetherBiome")
        => /\ result = (IF Lt(call.temp, Dec(-40)) THEN "soul_sand_valley"
                        ELSE IF Gt(call.temp, Dec(40)) THEN
                            (IF Lt(call.humid, Dec(0)) THEN "crimson_forest"
                             ELSE "basalt_deltas")
                        ELSE IF Gt(call.humid, Dec(30)) THEN "warped_forest"
                        ELSE IF Gt(call.erosion, Dec(50)) THEN "basalt_deltas"
                        ELSE "nether_wastes")
           /\ result \in getAvailableBiomes("nether")

\* temperature above 0.4 with humidity 0 has given basalt_deltas although
\* erosion is low
C6_HotAndNotDry ==
    /\ pinned # Null /\ call.op = "getNetherBiome"
    /\ call.temp = Dec(41) /\ call.humid = Dec(0) /\ call.erosion = Dec(-300)
    /\ result = "basalt_deltas"

\* the end biome at distance >= 1000 when small_end_islands is returned
\* exactly for dist < 1000 + factor * sin, with sin the sine of 8 * angle
endBiomeClaimed(distSq, spread, sin) ==
    IF SqrtLtMixed(distSq, 1000 + spread.q, MixedFraction(spread, sin[2]))
    THEN "small_end_islands"
    ELSE IF distSq > 2500 * 2500 THEN "end_highlands"
    ELSE IF distSq > 1800 * 1800 THEN "end_midlands"
    ELSE "end_barrens"

\* the result equals that biome for the factor given
endClaimHolds(factor) ==
    (pinned # Null /\ call.op = "getEndBiome"
        /\ call.blockX * call.blockX + call.blockZ * call.blockZ >= 1000 * 1000)
        => result = endBiomeClaimed(call.blockX * call.blockX + call.blockZ * call.blockZ,
                                    MixedScale(factor, Sin8(call.blockX, call.blockZ)),
                                    Sin8(call.blockX, call.blockZ))

\* C8 as stated: at distance d >= 1000 the end classifier returns
\* small_end_islands exactly when d < 1000 + 500 * s, with s the sine of
\* 8 * atan2(blockZ, blockX); otherwise end_highlands when d > 2500, else
\* end_midlands when d > 1800, else end_barrens.
C8_IslandsBelow500Sine == endClaimHolds(500)

\* C8 as the code has it: small_end_islands exactly when d < 1000 + 150 * s
\* (the sine is multiplied by 0.3 before the 500); otherwise end_highlands
\* when d > 2500, else end_midlands when d > 1800, else end_barrens.
C8_IslandsBelow150Sine == endClaimHolds(150)

\* the block (480, 960), at distance 1073.3 on a direction of sine 0.5376,
\* is below 1000 + 150 * s = 1080.6 and has been classified
C8_IslandsOnDirection ==
    /\ pinned # Null /\ call.op = "getEndBiome"
    /\ call.blockX = 480 /\ call.blockZ = 960
    /\ result = "small_end_islands"

\* the seed C10 gives: (seed + chunkX^2 * 0x4c1906 + chunkX * 0x5ac0db
\* + chunkZ^2 * 0x4307a7 + chunkZ * 0x5f24f) XOR 0x3ad8025f, modulo 2^48
slimeSeedClaimed(seed, chunkX, chunkZ) ==
    U48Xor(U48Add(U48Add(U48FromInt(seed),
                         U48Add(U48Mul(U48FromInt(chunkX * chunkX), U48FromInt(4987142)),
                                U48Mul(U48FromInt(chunkX), U48FromInt(5947611)))),
                  U48Add(U48Mul(U48FromInt(chunkZ * chunkZ), U48FromInt(4392871)),
                         U48Mul(U48FromInt(chunkZ), U48FromInt(389711)))),
           U48FromInt(987234911))

\* C10: isJavaSlimeChunk(seed, chunkX, chunkZ) is the value of
\* new JavaRandom(thatSeed).nextInt(10) === 0 for the seed the claim gives,
\* for positive and negative chunk coordinates.
C10_SlimeChunkIsNextInt ==
    (pinned # Null /\ call.op = "isJavaSlimeChunk")
        => result = (nextInt(JavaRandom(slimeSeedClaimed(call.seed, call.chunkX, call.chunkZ)),
                             10).val = 0)

\* a chunk of negative coordinates of a negative seed is a slime chunk
C10_NegativeSlimeChunk ==
    /\ pinned # Null /\ call.op = "isJavaSlimeChunk"
    /\ call.seed < 0 /\ call.chunkX < 0 /\ call.chunkZ < 0
    /\ result = TRUE

(***************************************************************************)
(* Properties of the seed hash                                             *)
(***************************************************************************)
\* the signed 32-bit integer congruent to 31 * h + charCode, from the product
\* taken modulo 2^48
wrapped31(h, charCode) ==
    LET x == U48Add(U48Mul(U48FromInt(h), <<31, 0, 0, 0>>),
                    <<charCode % Base, charCode \div Base, 0, 0>>)
        low31 == x[1] + Base * x[2] + (Base * Base) * (x[3] % 128)
    IN  IF (x[3] \div 128) % 2 = 1 THEN (low31 - 2147483647) - 1 ELSE low31

\* the fold h <- wrapped31(h, charCode) over the characters of str from i on
RECURSIVE fold31(_, _, _)
fold31(str, i, h) ==
    After(h, IF i > Len(str) THEN h ELSE fold31(str, i + 1, wrapped31(h, str[i])))

\* C11: the hash hashString returns for a string is the fold
\* h <- (31 * h + charCode), wrapped to a signed 32-bit integer after every
\* character and started from 0, and the copy in CubiomesWorldgen returns
\* the same integer for that string (the copies in FallbackWorldgen and in
\* SeedExplorerApp.generate are the statements of MinecraftWorldgen.hashString).
C11_HashIsFold31 ==
    (pinned # Null /\ call.op = "hashString")
        => /\ result = fold31(call.str, 1, 0)
           /\ cubiomesHashString(call.str, 1, 0) = result

\* a string long enough for the fold to wrap has been hashed to a negative integer
C11_WrappedHash ==
    pinned # Null /\ call.op = "hashString" /\ Len(call.str) >= 5 /\ result < 0

(***************************************************************************)
(* Properties of JavaRandom                                                *)
(***************************************************************************)
\* the six bytes of a BigInt below 2^48, least significant first
bytesOf(a) ==
    <<a[1] % 256, a[1] \div 256 + 16 * (a[2] % 16), a[2] \div 16,
      a[3] % 256, a[3] \div 256 + 16 * (a[4] % 16), a[4] \div 16>>

\* the bytes of (b * 0x5DEECE66D + 0xB) mod 2^48 for the bytes b of a state,
\* by long multiplication; the bytes of 0x5DEECE66D are 6D, E6, EC, DE, 05
lcgClaimed(b) ==
    LET c0 == b[1] * 109 + 11
        c1 == b[1] * 230 + b[2] * 109 + c0 \div 256
        c2 == b[1] * 236 + b[2] * 230 + b[3] * 109 + c1 \div 256
        c3 == b[1] * 222 + b[2] * 236 + b[3] * 230 + b[4] * 109 + c2 \div 256
        c4 == b[1] * 5 + b[2] * 222 + b[3] * 236 + b[4] * 230 + b[5] * 109 + c3 \div 256
        c5 == b[2] * 5 + b[3] * 222 + b[4] * 236 + b[5] * 230 + b[6] * 109 + c4 \div 256
    IN  <<c0 % 256, c1 % 256, c2 % 256, c3 % 256, c4 % 256, c5 % 256>>

\* bit j (from 0) of a BigInt below 2^48
bitOf(a, j) == (a[j \div 12 + 1] \div (2 ^ (j % 12))) % 2

\* C12: a next(bits) call with bits in 1..32 replaces the state by
\* (state * 0x5DEECE66D + 0xB) mod 2^48 and returns the top bits bits of the
\* new state, unsigned; after every JavaRandom operation the state is in
\* [0, 2^48): each of its four limbs is in 0..2^12 - 1.
C12_NextIsTopBitsOfLcg ==
    /\ (pinned # Null /\ call.op = "next")
            => /\ bytesOf(result.rnd.seed) = lcgClaimed(bytesOf(call.rnd.seed))
               /\ \A j \in 0..47 :
                    bitOf(result.val, j)
                        = IF j < call.bits
                          THEN bitOf(result.rnd.seed, j + (48 - call.bits))
                          ELSE 0
    /\ (pinned # Null /\ call.op \in {"next", "nextInt", "nextLong", "setSeed"})
            => \A i \in 1..4 : result.rnd.seed[i] \in 0..(Base - 1)

\* next(32) has returned a value with bit 31 set
C12_TopBitDrawn ==
    pinned # Null /\ call.op = "next" /\ call.bits = 32 /\ bitOf(result.val, 31) = 1

\* (seed XOR 0x5DEECE66D) mod 2^48 for the 64-bit signed integer
\* seed = hi * 2^48 + mid * 2^24 + lo, as a BigInt below 2^48.  0x5DEECE66D is
\* 0x5DE * 2^24 + 0xECE66D.  For a negative seed the exclusive or of the
\* two's complement is taken on the complement -seed - 1, which is not
\* negative, and complemented back.
scrambledClaimed(seed) ==
    LET full == 16777215
        xm == IF seed.hi >= 0 THEN BitXor(seed.mid, 1502, 24)
              ELSE full - BitXor(full - seed.mid, 1502, 24)
        xl == IF seed.hi >= 0 THEN BitXor(seed.lo, 15525485, 24)
              ELSE full - BitXor(full - seed.lo, 15525485, 24)
    IN  <<xl % Base, xl \div Base, xm % Base, xm \div Base>>

\* C13: setSeed(seed) sets the state to (seed XOR 0x5DEECE66D) mod 2^48 for
\* every 64-bit signed seed, the negative ones in two's complement.
C13_SetSeedScrambles ==
    (pinned # Null /\ call.op = "setSeed")
        => result.rnd.seed = scrambledClaimed(call.seed)

\* setSeed has been called with a negative seed
C13_NegativeSeedSet ==
    pinned # Null /\ call.op = "setSeed" /\ call.seed.hi < 0

\* C14: for every k in 0..30 and every generator state, nextInt(1 << k)
\* returns an integer r with 0 <= r < 1 << k.
C14_PowerOfTwoBoundInRange ==
    \A k \in 0..30 :
        (pinned # Null /\ call.op = "nextInt" /\ call.args = <<2 ^ k>>)
            => result.val \in 0..(2 ^ k - 1)

\* nextInt(1 << 30) has returned a value in the upper half of its range
C14_UpperHalfDrawn ==
    pinned # Null /\ call.op = "nextInt" /\ call.args = <<2 ^ 30>> /\ result.val >= 2 ^ 29

\* C15: nextInt(bound) with bound <= 0 fails with an explicit invalid-argument
\* error: it returns no value and it leaves the generator state unchanged.
C15_NonPositiveBoundFails ==
    (pinned # Null /\ call.op = "nextInt" /\ call.args # <<>> /\ call.args[1] <= 0)
        => /\ "error" \in DOMAIN result
           /\ "val" \notin DOMAIN result
           /\ result.rnd = call.rnd

(***************************************************************************)
(* Properties of the noise classes                                         *)
(***************************************************************************)
\* the first 256 entries of the table p hold each of 0..255 exactly once, and
\* p[i + 256] = p[i] for every i in 0..255
permutationMirrored(p) ==
    /\ Len(p) = 512
    /\ \A v \in 0..255 : Cardinality({i \in 0..255 : At(p, i) = v}) = 1
    /\ \A i \in 0..255 : At(p, i + 256) = At(p, i)

\* C16: for every seed, the first 256 entries of the permutation table of a
\* new PerlinNoise are a permutation of 0..255 and the second half of the
\* table repeats the first; so it is for every octave table of the six
\* generators initNoiseForSeed builds.
C16_TableIsPermutation ==
    /\ (pinned # Null /\ call.op = "PerlinNoise") => permutationMirrored(result.p)
    /\ (pinned # Null /\ call.op = "initNoiseForSeed")
            => \A name \in DOMAIN result : \A j \in DOMAIN result[name].octaves :
                    permutationMirrored(result[name].octaves[j])

\* a table has been built whose last entry of the first half was moved by the shuffle
C16_TableShuffled ==
    pinned # Null /\ call.op = "PerlinNoise" /\ At(result.p, 255) # 255

\* what the n-th next(32) call on the generator rnd returns, n >= 1
RECURSIVE rootDraw(_, _)
rootDraw(rnd, n) ==
    After(rnd, IF n = 1 THEN next(rnd, 32) ELSE rootDraw(next(rnd, 32).rnd, n - 1))

\* the seed of the k-th field: draws 2k - 1 and 2k of the root generator
\* seeded with seedValue, the first one shifted left by 32 bits
fieldSeedClaimed(seedValue, k) ==
    U48Add(U48Shl(rootDraw(JavaRandom(U48FromInt(seedValue)), 2 * k - 1).val, 32),
           rootDraw(JavaRandom(U48FromInt(seedValue)), 2 * k).val)

\* the fields in the order claimed
fieldsClaimed ==
    <<"temperature", "humidity", "continentalness", "erosion", "weirdness", "depth">>

\* the generator claimed for the k-th field
fieldClaimed(seedValue, k, config) ==
    OctaveNoise(JavaRandom(fieldSeedClaimed(seedValue, k)), config.octaves, config.amplitudes)

\* C17: the six climate generators initNoiseForSeed builds are seeded from one
\* root generator seeded with the world seed, in the order temperature,
\* humidity, continentalness, erosion, weirdness, depth: the k-th field is
\* the OctaveNoise of a JavaRandom seeded with the k-th root.nextLong(), the
\* value of root draws 2k - 1 and 2k.
C17_FieldsSeededInOrder ==
    (pinned # Null /\ call.op = "initNoiseForSeed")
        => /\ DOMAIN result = {fieldsClaimed[k] : k \in 1..6}
           /\ \A k \in 1..6 :
                result[fieldsClaimed[k]]
                    = fieldClaimed(SeedValue(call.seed), k,
                                   CHOOSE c \in {noiseConfigs[i] : i \in DOMAIN noiseConfigs} :
                                        c.name = fieldsClaimed[k])

\* the generators of a seed have been built, and two fields of the same
\* octave count differ in their first table
C17_FieldsDiffer ==
    /\ pinned # Null /\ call.op = "initNoiseForSeed"
    /\ result.temperature.octaves[1] # result.humidity.octaves[1]

\* C18: noise(x, y, z) returns exactly 0 at every point whose three
\* coordinates are integers, positive or negative, on every permutation
\* table of the generators built.
C18_ZeroOnLattice ==
    (/\ pinned # Null /\ call.op = "noise"
     /\ Mod(call.x, One) = 0 /\ Mod(call.y, One) = 0 /\ Mod(call.z, One) = 0)
        => result = 0

\* noise has been sampled at a lattice point with negative coordinates
C18_NegativeLatticePoint ==
    /\ pinned # Null /\ call.op = "noise"
    /\ call.x = -One /\ call.y = -256 * One /\ call.z = -One

(***************************************************************************)
(* Properties of the signed draws of JavaRandom                            *)
(***************************************************************************)
\* the 32-bit draw v reinterpreted as a signed 32-bit integer, modulo 2^48:
\* 2^32 is subtracted when bit 31 is set (2^48 - 2^32 is <<0, 0, 3840, 4095>>)
signedClaimed(v) ==
    IF bitOf(v, 31) = 1 THEN U48Add(v, <<0, 0, 3840, 4095>>) ELSE v

\* C19: nextLong() returns (a << 32) + b, where a and b are the two
\* successive next(32) draws, each reinterpreted as a signed 32-bit integer;
\* the values are compared modulo 2^48, where a second draw with its top
\* bit set still subtracts 2^32.
C19_NextLongOfSignedDraws ==
    (pinned # Null /\ call.op = "nextLong")
        => result.val
             = U48Add(U48Shl(signedClaimed(rootDraw(call.rnd, 1).val), 32),
                      signedClaimed(rootDraw(call.rnd, 2).val))

\* C20: nextInt() called with no bound returns the next(32) draw
\* reinterpreted as a signed 32-bit integer, a value in [-2^31, 2^31 - 1].
C20_NextIntOfSignedDraw ==
    (pinned # Null /\ call.op = "nextInt" /\ call.args = <<>>)
        => result.val = signedClaimed(rootDraw(call.rnd, 1).val)

(***************************************************************************)
(* One JavaRandom instance, seeded and drawn from call after call.         *)
(***************************************************************************)
\* the draws made on the instance since it was seeded last
MaxDraws == 3

\* the passes of its loop a nextGaussian call made may reject
MaxRejections == 1

\* the seeds passed to the constructor and to setSeed, as BigInts below 2^48:
\* from three of them the first pass of two nextGaussian loops in a row is
\* accepted, from the fourth the second pass of the first loop is, and 0
GaussianSeeds ==
    {<<2567, 2518, 808, 1945>>, <<4077, 2398, 690, 3437>>, <<408, 822, 1355, 2600>>,
     <<875, 1421, 2670, 3882>>, <<0, 0, 0, 0>>}

\* the loop of nextGaussian on the register of rnd ends after n rejected
\* passes at most
RECURSIVE LoopEnds(_, _)
LoopEnds(rnd, n) ==
    LET pass == gaussianPass(rnd)
    IN  ~pass.again \/ (n > 0 /\ LoopEnds(pass.rnd, n - 1))

\* new JavaRandom(seed): pinned holds the call that seeded the instance last
\* and, in order, the draws made since with the values they returned
RandomInit ==
    /\ noiseGenerators = Null
    /\ currentSeed = Undefined
    /\ \E seed \in GaussianSeeds :
            /\ call = [op |-> "JavaRandom", seed |-> seed]
            /\ javaRandom = JavaRandom(seed)
            /\ pinned = [call |-> [op |-> "JavaRandom", seed |-> seed], result |-> <<>>]
    /\ result = Undefined
    /\ cubiomes = Null /\ heap = Null /\ app = Null

\* setSeed(seed): this.seed is assigned, and nothing else
RandomSetSeed ==
    \E seed \in GaussianSeeds :
        /\ call' = [op |-> "setSeed", seed |-> seed]
        /\ javaRandom' = [javaRandom EXCEPT !.seed = setSeed(seed).seed]
        /\ result' = Undefined
        /\ pinned' = [call |-> [op |-> "setSeed", seed |-> seed], result |-> <<>>]
        /\ UNCHANGED <<noiseGenerators, currentSeed, cubiomes, heap, app>>

\* the draw made returns d.val and leaves the instance d.rnd
Drawn(made, d) ==
    /\ call' = made
    /\ javaRandom' = d.rnd
    /\ result' = d.val
    /\ pinned' = [pinned EXCEPT !.result = Append(@, [call |-> made, val |-> d.val])]
    /\ UNCHANGED <<noiseGenerators, currentSeed, cubiomes, heap, app>>

\* nextInt(bound): this.seed is assigned by next
RandomNextInt ==
    /\ Len(pinned.result) < MaxDraws
    /\ \E bound \in {10} :
        LET d == nextInt(javaRandom, bound)
        IN  Drawn([op |-> "nextInt", args |-> <<bound>>],
                  [val |-> d.val, rnd |-> [javaRandom EXCEPT !.seed = d.rnd.seed]])

\* nextGaussian(), called while the register of the instance is one
\* from which the loop of nextGaussian ends within MaxRejections rejected passes
RandomNextGaussian ==
    /\ Len(pinned.result) < MaxDraws
    /\ LoopEnds(javaRandom, MaxRejections)
    /\ Drawn([op |-> "nextGaussian"], nextGaussian(javaRandom))

RandomNext ==
    \/ RandomSetSeed
    \/ RandomNextInt
    \/ RandomNextGaussian

RandomSpec == RandomInit /\ [][RandomNext]_vars

(***************************************************************************)
(* CubiomesWorldgen: the generators cache and the WASM heap                *)
(* (src/worldgen-cubiomes.js)                                              *)
(***************************************************************************)
\* the addresses malloc can return, 1..HeapSlots; malloc returns 0 when none
\* of them is free
HeapSlots == 3

\* after new CubiomesWorldgen() and init(): the module is loaded, the cache
\* is empty and nothing is allocated.  heap[ptr] is "free", "live" once
\* malloc has returned ptr, and "corrupt" once free was called on a ptr that
\* was not live.
CubiomesInit ==
    /\ noiseGenerators = Null
    /\ currentSeed = Undefined
    /\ call = [op |-> "none"]
    /\ result = Undefined
    /\ pinned = Null
    /\ javaRandom = Null
    /\ cubiomes = [generators |-> <<>>]
    /\ heap = [ptr \in 1..HeapSlots |-> "free"]
    /\ app = Null

\* getGenerator(seed, version, dimension).  The key is the template string
\* `${seed}_${version}_${dimension}`, here its three parts, none of which
\* holds a '_'.  malloc returns any free address, setupGenerator returns 0
\* or not, and applySeed returns or throws, as the module decides; the
\* catch block returns null.
GetGenerator ==
    \E seed \in Seeds, version \in {"1.20"}, dimension \in {"overworld", "nether"} :
        LET key == <<TemplateString(seed), version, dimension>>
            generators == cubiomes.generators
        IN  /\ call' = [op |-> "getGenerator", seed |-> seed, version |-> version,
                        dimension |-> dimension]
            /\ UNCHANGED <<noiseGenerators, currentSeed, pinned, javaRandom, app>>
            /\ IF key \in DOMAIN generators
               THEN /\ result' = generators[key]
                    /\ UNCHANGED <<cubiomes, heap>>
               ELSE IF \A ptr \in DOMAIN heap : heap[ptr] # "free"
               THEN /\ result' = Null
                    /\ UNCHANGED <<cubiomes, heap>>
               ELSE \E ptr \in {a \in DOMAIN heap : heap[a] = "free"} :
                        \* setupResult !== 0: _freeFn(ptr), then the throw
                        \/ /\ result' = Null
                           /\ UNCHANGED <<cubiomes, heap>>
                        \* _applySeedFn throws: the catch block frees nothing
                        \/ /\ result' = Null
                           /\ heap' = [heap EXCEPT ![ptr] = "live"]
                           /\ UNCHANGED cubiomes
                        \* the generator is cached and returned
                        \/ /\ result' = [ptr |-> ptr, seed |-> seed, version |-> version,
                                          dimension |-> dimension]
                           /\ heap' = [heap EXCEPT ![ptr] = "live"]
                           /\ cubiomes' =
                                [generators |->
                                    [k \in DOMAIN generators \cup {key} |->
                                        IF k = key THEN result' ELSE generators[k]]]

\* destroy(): free is called on the ptr of every cached generator, and the
\* cache is cleared
Destroy ==
    /\ call' = [op |-> "destroy"]
    /\ result' = Undefined
    /\ heap' = [ptr \in DOMAIN heap |->
                    IF \E k \in DOMAIN cubiomes.generators : cubiomes.generators[k].ptr = ptr
                    THEN IF heap[ptr] = "live"
                            /\ Cardinality({k \in DOMAIN cubiomes.generators :
                                                cubiomes.generators[k].ptr = ptr}) = 1
                         THEN "free" ELSE "corrupt"
                    ELSE heap[ptr]]
    /\ cubiomes' = [generators |-> <<>>]
    /\ UNCHANGED <<noiseGenerators, currentSeed, pinned, javaRandom, app>>

CubiomesNext == GetGenerator \/ Destroy

CubiomesSpec == CubiomesInit /\ [][CubiomesNext]_vars

(***************************************************************************)
(* SeedExplorerApp: the canvas mouse handlers (src/app.js)                 *)
(***************************************************************************)
\* the number of mouse events of one behaviour
MaxEvents == 4

\* after new SeedExplorerApp() and init() with nothing stored: the fields of
\* the constructor, and the camera of the renderer (pixelsPerBlock is 1.0
\* and no handler modelled here changes it)
AppInit ==
    /\ noiseGenerators = Null
    /\ currentSeed = Undefined
    /\ call = [op |-> "none"]
    /\ result = Undefined
    /\ pinned = <<>>
    /\ javaRandom = Null
    /\ cubiomes = Null
    /\ heap = Null
    /\ app = [isDragging |-> FALSE, dragStarted |-> FALSE,
              lastMouseX |-> 0, lastMouseY |-> 0, lastClickX |-> 0, lastClickY |-> 0,
              markers |-> <<>>,
              camera |-> [centerBlockX |-> 0, centerBlockZ |-> 0, pixelsPerBlock |-> 1]]

onmousedown(a, e) ==
    [a EXCEPT !.isDragging = TRUE, !.dragStarted = FALSE,
              !.lastMouseX = e.clientX, !.lastMouseY = e.clientY,
              !.lastClickX = e.clientX, !.lastClickY = e.clientY]

\* mutant of onmousemove: the mouse position is recorded on every move
onmousemoveTracking(a, e) ==
    IF a.isDragging
    THEN LET dx == e.clientX - a.lastMouseX
             dy == e.clientY - a.lastMouseY
         IN  IF Abs(dx) > 2 \/ Abs(dy) > 2
             THEN [a EXCEPT !.dragStarted = TRUE,
                            !.camera.centerBlockX = @ - dx \div a.camera.pixelsPerBlock,
                            !.camera.centerBlockZ = @ - dy \div a.camera.pixelsPerBlock,
                            !.lastMouseX = e.clientX, !.lastMouseY = e.clientY]
             ELSE [a EXCEPT !.lastMouseX = e.clientX, !.lastMouseY = e.clientY]
    ELSE a

\* dx / pixelsPerBlock is exact: pixelsPerBlock is 1
onmousemove(a, e) ==
    IF a.isDragging
    THEN LET dx == e.clientX - a.lastMouseX
             dy == e.clientY - a.lastMouseY
         IN  IF Abs(dx) > 2 \/ Abs(dy) > 2
             THEN [a EXCEPT !.dragStarted = TRUE,
                            !.camera.centerBlockX = @ - dx \div a.camera.pixelsPerBlock,
                            !.camera.centerBlockZ = @ - dy \div a.camera.pixelsPerBlock,
                            !.lastMouseX = e.clientX, !.lastMouseY = e.clientY]
             ELSE a
    ELSE a

\* the marker keeps the arguments of Coords.screenToBlock, which is not among
\* the modelled files: the point of the canvas (its rect is at the origin)
\* and the camera
addMarker(a, e) ==
    [a EXCEPT !.markers = Append(@, [name |-> <<"Marker", Len(a.markers) + 1>>,
                                     mouseX |-> e.clientX, mouseY |-> e.clientY,
                                     camera |-> a.camera])]

onmouseup(a, e) ==
    LET wasDragging == a.isDragging
        placed == IF wasDragging /\ ~a.dragStarted /\ (e.shiftKey \/ e.ctrlKey)
                  THEN addMarker(a, e) ELSE a
    IN  [placed EXCEPT !.isDragging = FALSE, !.dragStarted = FALSE]

onmouseleave(a) == [a EXCEPT !.isDragging = FALSE, !.dragStarted = FALSE]

\* one event is handled; pinned is the history of the events, each with the
\* camera and the number of markers it left
Handled(e, a) ==
    /\ Len(pinned) < MaxEvents
    /\ call' = e
    /\ app' = a
    /\ result' = Undefined
    /\ pinned' = Append(pinned, [e |-> e, camera |-> a.camera, markers |-> Len(a.markers)])
    /\ UNCHANGED <<noiseGenerators, currentSeed, javaRandom, cubiomes, heap>>

\* clientX, clientY of the events: offsets of 2 px and of more than 2 px,
\* and two steps of 2 px that add up to 4 px
AppNext ==
    \/ \E p \in {<<0, 0>>, <<2, 0>>, <<4, 0>>, <<0, 3>>} :
            LET e == [op |-> "mousedown", clientX |-> p[1], clientY |-> p[2]]
            IN  Handled(e, onmousedown(app, e))
    \/ \E p \in {<<0, 0>>, <<2, 0>>, <<4, 0>>, <<0, 3>>} :
            LET e == [op |-> "mousemove", clientX |-> p[1], clientY |-> p[2]]
            IN  Handled(e, onmousemove(app, e))
    \/ \E p \in {<<2, 0>>}, shiftKey \in BOOLEAN, ctrlKey \in BOOLEAN :
            LET e == [op |-> "mouseup", clientX |-> p[1], clientY |-> p[2],
                      shiftKey |-> shiftKey, ctrlKey |-> ctrlKey]
            IN  Handled(e, onmouseup(app, e))
    \/ Handled([op |-> "mouseleave"], onmouseleave(app))

AppSpec == AppInit /\ [][AppNext]_vars

(***************************************************************************)
(* C21: nextDouble                                                         *)
(***************************************************************************)
\* C21: nextDouble() returns (a * 2^27 + b) / 2^53 where a = nextBits(26) and
\* b = nextBits(27) are drawn in that order, and the result lies in [0, 1).
\* The result is the rational n / d; below 1, n / d = a / 2^26 + b / 2^53
\* with d dividing 2^26 says n * (2^26 / d) = a + b / 2^27, whose left side
\* is whole and whose b is below 2^27.
C21_NextDoubleInUnitInterval ==
    (pinned # Null /\ call.op = "nextDouble") =>
        LET a == next(call.rnd, 26)
            b == next(a.rnd, 27)
            n == result.val[1]
            d == result.val[2]
        IN  /\ result.rnd = b.rnd
            /\ 0 <= n /\ n < d
            /\ n * (2 ^ 26 \div d) = U48ToNumber(a.val)
            /\ U48ToNumber(b.val) = 0

(***************************************************************************)
(* C22: nextInt(bound) for a bound that is no power of two                 *)
(***************************************************************************)
\* nextInt(bound) as claimed: bits = nextBits(31) and val = bits mod bound are
\* redrawn exactly when bits - val + (bound - 1) exceeds 2^31 - 1
RECURSIVE nextIntClaimed(_, _)
nextIntClaimed(rnd, bound) ==
    LET d == next(rnd, 31)
        bits == U48ToNumber(d.val)
    IN  IF bits - (bits % bound) > 2147483647 - (bound - 1)
        THEN nextIntClaimed(d.rnd, bound)
        ELSE [val |-> bits % bound, rnd |-> d.rnd]

\* C22: for a positive bound that is no power of two, nextInt(bound) returns
\* the val of the first draw whose bits - val + (bound - 1) does not overflow
\* a signed 32-bit integer, every earlier draw being rejected, and that val
\* lies in [0, bound).
C22_NextIntRejectsOnOverflow ==
    (/\ pinned # Null /\ call.op = "nextInt" /\ call.args # <<>>
     /\ call.args[1] > 0
     /\ BitAnd(call.args[1], (2147483647 - call.args[1]) + 1, 31) # call.args[1]) =>
        /\ result = nextIntClaimed(call.rnd, call.args[1])
        /\ result.val >= 0 /\ result.val < call.args[1]

(***************************************************************************)
(* C23: nextGaussian works in pairs                                        *)
(***************************************************************************)
\* the register n steps of the LCG after seed; the steps are halved so that
\* the evaluation depth stays logarithmic in their number
RECURSIVE lcgAfter(_, _)
RECURSIVE lcgUpper(_, _)
\* the last n steps, after the steps before them have produced lower
lcgUpper(lower, n) == After(lower, lcgAfter(lower, n))

lcgAfter(seed, n) ==
    IF n = 0 THEN seed
    ELSE IF n = 1 THEN U48Add(U48Mul(seed, MULTIPLIER), ADDEND)
    ELSE lcgUpper(lcgAfter(seed, n \div 2), n - n \div 2)

\* v1 and v2 are the two values of one accepted pair: they share the sum of
\* squares s, which is that of their factors
pairClaimed(v1, v2) ==
    /\ v1.s = v2.s
    /\ v1.s = U48Add(U48Mul(U48FromInt(Abs(v1.v[1])), U48FromInt(Abs(v1.v[1]))),
                     U48Mul(U48FromInt(Abs(v2.v[1])), U48FromInt(Abs(v2.v[1]))))

\* C23: a nextGaussian call made with no cached spare draws from the LCG (two
\* nextDouble calls, four steps, for each pass of its loop), returns one value
\* of the accepted pair and caches the other; a call made with a cached spare
\* returns that value without advancing the LCG state and clears the cache,
\* so that the call after it draws afresh.
C23_GaussianPairs ==
    [][(call'.op = "nextGaussian" /\ Len(pinned'.result) = Len(pinned.result) + 1) =>
            IF "hasNextGaussian" \in DOMAIN javaRandom /\ javaRandom.hasNextGaussian
            THEN /\ result' = javaRandom.nextGaussianValue
                 /\ javaRandom'.seed = javaRandom.seed
                 /\ ~javaRandom'.hasNextGaussian
            ELSE /\ \E k \in 1..(MaxRejections + 1) :
                        javaRandom'.seed = lcgAfter(javaRandom.seed, 4 * k)
                 /\ javaRandom'.hasNextGaussian
                 /\ pairClaimed(result', javaRandom'.nextGaussianValue)]_vars

\* three nextGaussian calls in a row on a new instance: the second returned
\* the other value of the first pair, the third drew a new pair
C23_ThirdCallDrawsAfresh ==
    /\ pinned.call.op = "JavaRandom"
    /\ Len(pinned.result) = 3
    /\ \A i \in 1..3 : pinned.result[i].call.op = "nextGaussian"
    /\ pairClaimed(pinned.result[1].val, pinned.result[2].val)
    /\ pinned.result[3].val.s # pinned.result[1].val.s
    /\ pairClaimed(pinned.result[3].val, javaRandom.nextGaussianValue)
    /\ javaRandom.hasNextGaussian

(***************************************************************************)
(* C24: structure candidates on the placement grid                         *)
(***************************************************************************)
\* the grid cell of a candidate c of configuration config, and the offsets of
\* its chunk in the cell; whole is whether its block is 16 * chunk + 8
cellClaimed(c, config) ==
    [whole |-> (c.blockX - 8) % 16 = 0 /\ (c.blockZ - 8) % 16 = 0,
     regionX |-> FloorDiv(FloorDiv(c.blockX - 8, 16), config.spacing),
     regionZ |-> FloorDiv(FloorDiv(c.blockZ - 8, 16), config.spacing),
     offsetX |-> FloorDiv(c.blockX - 8, 16)
                    - FloorDiv(FloorDiv(c.blockX - 8, 16), config.spacing) * config.spacing,
     offsetZ |-> FloorDiv(c.blockZ - 8, 16)
                    - FloorDiv(FloorDiv(c.blockZ - 8, 16), config.spacing) * config.spacing]

\* the candidates returned with their cells
cellsClaimed(dimension, structures) ==
    [i \in DOMAIN structures |->
        LET config == CHOOSE g \in {structureConfigs[dimension][k] :
                                        k \in DOMAIN structureConfigs[dimension]} :
                            g.type = structures[i].type
        IN  [type |-> config.type, limit |-> config.spacing - config.separation,
             cell |-> cellClaimed(structures[i], config)]]

\* C24: every candidate getStructuresInArea returns is at block 16 * chunk + 8
\* on both axes, its chunk offsets in its grid cell (floor(chunkX / spacing),
\* floor(chunkZ / spacing)) lie in [0, spacing - separation), and no two
\* candidates of one type are in the same cell.
C24_CandidatesOnGrid ==
    (pinned # Null /\ call.op = "getStructuresInArea") =>
        LET cells == cellsClaimed(call.dimension, result)
        IN  /\ \A i \in DOMAIN cells :
                    /\ cells[i].cell.whole
                    /\ cells[i].cell.offsetX >= 0 /\ cells[i].cell.offsetX < cells[i].limit
                    /\ cells[i].cell.offsetZ >= 0 /\ cells[i].cell.offsetZ < cells[i].limit
            /\ \A i, j \in DOMAIN cells :
                    (i # j /\ cells[i].type = cells[j].type) =>
                        <<cells[i].cell.regionX, cells[i].cell.regionZ>>
                            # <<cells[j].cell.regionX, cells[j].cell.regionZ>>

\* two candidates of one type were returned, one of them in a cell of
\* negative coordinates and off the corner of its cell
C24_TwoCellsOfOneType ==
    /\ pinned # Null /\ call.op = "getStructuresInArea"
    /\ LET cells == cellsClaimed(call.dimension, result)
       IN  \E i, j \in DOMAIN cells :
                /\ i # j /\ cells[i].type = cells[j].type
                /\ cells[i].cell.regionX < 0 /\ cells[i].cell.regionZ < 0
                /\ cells[i].cell.offsetX > 0 /\ cells[i].cell.offsetZ > 0

(***************************************************************************)
(* C25: the LCG steps of the PerlinNoise and OctaveNoise constructors      *)
(***************************************************************************)
\* new PerlinNoise(random) as claimed on the generator whose register is
\* seed: 255 LCG steps, the k-th of them the single draw of nextInt(i + 1)
\* for i = 256 - k, which returns a value in [0, i]
stepsClaimed(seed) ==
    /\ PerlinNoise([seed |-> seed]).rnd.seed = lcgAfter(seed, 255)
    /\ \A i \in 1..255 :
            LET d == nextInt([seed |-> lcgAfter(seed, 255 - i)], i + 1)
            IN  d.rnd.seed = lcgAfter(seed, 256 - i) /\ d.val >= 0 /\ d.val <= i

\* C25: new PerlinNoise(random) advances random by exactly 255 LCG steps, one
\* for each nextInt(i + 1), i = 255..1, which returns a value in [0, i]; so
\* octave i (from 0) of an OctaveNoise of n octaves is the PerlinNoise built
\* from the shared generator 255 * i steps after its seeding, and leaves it
\* 255 * (i + 1) steps after it: 255 * n steps after the last octave.
C25_OctavesShareSteps ==
    /\ (pinned # Null /\ call.op = "PerlinNoise") =>
            /\ result.rnd.seed = lcgAfter(call.rnd.seed, 255)
            /\ stepsClaimed(call.rnd.seed)
    /\ (pinned # Null /\ call.op = "initNoiseForSeed") =>
            \A k \in 1..6 :
                LET start == JavaRandom(fieldSeedClaimed(SeedValue(call.seed), k)).seed
                    octaves == result[fieldsClaimed[k]].octaves
                IN  \A i \in 0..(Len(octaves) - 1) :
                        PerlinNoise([seed |-> lcgAfter(start, 255 * i)])
                            = [p |-> octaves[i + 1],
                               rnd |-> [seed |-> lcgAfter(start, 255 * (i + 1))]]

\* an OctaveNoise of two octaves at least was built: its second table is
\* that of the generator 255 steps after the seeding, and is not the first
C25_SecondOctaveBuilt ==
    /\ pinned # Null /\ call.op = "initNoiseForSeed"
    /\ \E k \in 1..6 :
            LET start == JavaRandom(fieldSeedClaimed(SeedValue(call.seed), k)).seed
                octaves == result[fieldsClaimed[k]].octaves
            IN  /\ Len(octaves) >= 2
                /\ octaves[2] = PerlinNoise([seed |-> lcgAfter(start, 255)]).p
                /\ octaves[2] # octaves[1]

(***************************************************************************)
(* C26: the table lookups of PerlinNoise.noise                             *)
(***************************************************************************)
\* C26: the table of a PerlinNoise has 512 entries, and every index at which
\* noise(x, y, z) reads it (X, X + 1, A, A + 1, B, B + 1, AA, AA + 1, AB,
\* AB + 1, BA, BA + 1, BB, BB + 1) lies in 0..511.
C26_LookupsInTable ==
    call.op = "noise" =>
        /\ Len(call.p) = 512
        /\ \A k \in DOMAIN noiseIndices(call.p, call.x, call.y, call.z) :
                noiseIndices(call.p, call.x, call.y, call.z)[k] \in 0..511

\* noise has returned for a negative x in the cell X = 255, where it read
\* the entry 256, and it read entries of the second half through A, B and
\* their successors
C26_SecondHalfRead ==
    /\ pinned # Null /\ call.op = "noise"
    /\ call.x < 0
    /\ noiseIndices(call.p, call.x, call.y, call.z)[2] = 256
    /\ \E k \in 3..14 : noiseIndices(call.p, call.x, call.y, call.z)[k] >= 256

(***************************************************************************)
(* C27: the structures of a rectangle and of the rectangles inside it      *)
(***************************************************************************)
\* the block of the candidate c lies inside the rectangle area
insideClaimed(c, area) ==
    /\ c.blockX >= area[1] /\ c.blockX <= area[3]
    /\ c.blockZ >= area[2] /\ c.blockZ <= area[4]

\* the rectangle spanned by the blocks of the candidates c and d
spanClaimed(c, d) ==
    <<IF c.blockX < d.blockX THEN c.blockX ELSE d.blockX,
      IF c.blockZ < d.blockZ THEN c.blockZ ELSE d.blockZ,
      IF c.blockX < d.blockX THEN d.blockX ELSE c.blockX,
      IF c.blockZ < d.blockZ THEN d.blockZ ELSE c.blockZ>>

\* rectangles inside area: area with sides moved inwards by 600 blocks, and
\* the rectangles spanned by one candidate returned or by two in a row
areasClaimed(structures, area) ==
    {r \in {<<area[1] + a, area[2] + b, area[3] - c, area[4] - d>> :
                a \in {0, 600}, b \in {0, 600}, c \in {0, 600}, d \in {0, 600}} :
        r[1] <= r[3] /\ r[2] <= r[4]}
    \cup {spanClaimed(structures[p[1]], structures[p[2]]) :
                p \in {q \in (DOMAIN structures) \X (DOMAIN structures) :
                            q[2] = q[1] \/ q[2] = q[1] + 1}}

\* C27: for one seed and dimension, a scan of a rectangle R inside the
\* rectangle R' just scanned returns exactly the candidates of the scan of
\* R' whose block lies inside R, in the same order.
C27_StructuresOfSubRectangle ==
    (pinned # Null /\ call.op = "getStructuresInArea") =>
        \A r \in areasClaimed(result, <<call.minBlockX, call.minBlockZ,
                                         call.maxBlockX, call.maxBlockZ>>) :
            getStructuresInArea(Self, call.seed, call.edition, call.version, call.dimension,
                                r[1], r[2], r[3], r[4]).structures
                = SelectSeq(result, LAMBDA c : insideClaimed(c, r))

\* a rectangle inside the one scanned keeps some of the candidates returned
\* and leaves others out
C27_SomeKeptSomeLeftOut ==
    /\ pinned # Null /\ call.op = "getStructuresInArea"
    /\ \E r \in areasClaimed(result, <<call.minBlockX, call.minBlockZ,
                                         call.maxBlockX, call.maxBlockZ>>) :
            /\ \E i \in DOMAIN result : insideClaimed(result[i], r)
            /\ \E i \in DOMAIN result : ~insideClaimed(result[i], r)
            /\ getStructuresInArea(Self, call.seed, call.edition, call.version,
                                   call.dimension, r[1], r[2], r[3], r[4]).structures
                    = SelectSeq(result, LAMBDA c : insideClaimed(c, r))

(***************************************************************************)
(* C29: the pointers of the generators cache                               *)
(***************************************************************************)
\* C29: after any getGenerator and destroy calls, every pointer malloc
\* returned that was not freed since is held by exactly one entry of the
\* generators cache, no pointer was freed that was not allocated, and after
\* destroy the cache is empty and nothing is allocated: a creation that
\* failed has freed the pointer it allocated.
C29_PointersHeldOnce ==
    /\ \A ptr \in DOMAIN heap :
            /\ heap[ptr] # "corrupt"
            /\ heap[ptr] = "live" =>
                    Cardinality({k \in DOMAIN cubiomes.generators :
                                    cubiomes.generators[k].ptr = ptr}) = 1
    /\ \A k \in DOMAIN cubiomes.generators : heap[cubiomes.generators[k].ptr] = "live"
    /\ call.op = "destroy" =>
            /\ cubiomes.generators = <<>>
            /\ \A ptr \in DOMAIN heap : heap[ptr] = "free"

(***************************************************************************)
(* C30: markers and the canvas mouse protocol                              *)
(***************************************************************************)
\* the press that event i of the history ends: the index of its mousedown,
\* which is the last mousedown, mouseup or mouseleave before i, and 0 when
\* there is none or when that event is not a mousedown
pressClaimed(events, i) ==
    LET ends == {j \in 1..(i - 1) : events[j].e.op \in {"mousedown", "mouseup", "mouseleave"}}
    IN  IF ends = {} THEN 0
        ELSE LET j == CHOOSE k \in ends : \A l \in ends : l <= k
             IN  IF events[j].e.op = "mousedown" THEN j ELSE 0

\* event i is a mouseup with Shift or Ctrl held that ends a press in which no
\* mousemove was more than 2 px away, on either axis, from the position the
\* mousedown recorded (the last recorded one as long as no such move came)
addsClaimed(events, i) ==
    LET j == pressClaimed(events, i)
    IN  /\ events[i].e.op = "mouseup"
        /\ events[i].e.shiftKey \/ events[i].e.ctrlKey
        /\ j # 0
        /\ \A k \in (j + 1)..(i - 1) :
                /\ Abs(events[k].e.clientX - events[j].e.clientX) <= 2
                /\ Abs(events[k].e.clientY - events[j].e.clientY) <= 2

\* C30: an event adds a marker, and only one, exactly when it is a mouseup
\* with Shift or Ctrl held that ends a press (a mousedown with no mouseleave,
\* mouseup or further mousedown after it) without a mousemove of more than
\* 2 px on either axis; the camera was not moved during such a press, and a
\* mouseup with no press open adds nothing.
C30_MarkerOnPlainClick ==
    \A i \in DOMAIN pinned :
        LET before == IF i = 1 THEN 0 ELSE pinned[i - 1].markers
        IN  /\ pinned[i].markers = before + (IF addsClaimed(pinned, i) THEN 1 ELSE 0)
            /\ pinned[i].markers # before =>
                    pinned[i].camera = pinned[pressClaimed(pinned, i)].camera

\* a press with a move of 2 px in it was ended by a mouseup with Ctrl held,
\* and the marker was added with the camera where it was
C30_MarkerAfterSmallMove ==
    /\ Len(pinned) = 3
    /\ pinned[1].e.op = "mousedown" /\ pinned[1].e.clientX = 0 /\ pinned[1].e.clientY = 0
    /\ pinned[2].e.op = "mousemove" /\ pinned[2].e.clientX = 2
    /\ pinned[3].e.op = "mouseup" /\ pinned[3].e.ctrlKey /\ ~pinned[3].e.shiftKey
    /\ Len(app.markers) = 1
    /\ app.markers[1].camera.centerBlockX = 0

(***************************************************************************)
(* C28: setSeed and the draws after it                                     *)
(***************************************************************************)
\* the draws of history from its i-th on return what they return on rnd
RECURSIVE drawsClaimed(_, _, _)
drawsClaimed(rnd, history, i) ==
    IF i > Len(history) THEN TRUE
    ELSE LET d == IF history[i].call.op = "nextGaussian" THEN nextGaussian(rnd)
                  ELSE [nextInt(rnd, history[i].call.args[1]) EXCEPT
                            !.rnd = [seed |-> @.seed] @@ rnd]
         IN  d.val = history[i].val /\ drawsClaimed(d.rnd, history, i + 1)

\* C28: after setSeed(s), the values the draws return, nextGaussian included,
\* are those they return on a new JavaRandom(s), whatever was drawn before.
C28_DrawsDependOnSeedOnly ==
    pinned.call.op = "setSeed" =>
        drawsClaimed(JavaRandom(pinned.call.seed), pinned.result, 1)
====
